---- MODULE Spec2Model ----
(***************************************************************************)
(* Verification model of the policy question-answering pipeline:          *)
(*   - the segmenter          (src/pdf_parser.py, chunk_document)          *)
(*   - the retrieval engine   (src/retriever.py, expand_query / retrieve)  *)
(*   - the coverage agent     (src/agent.py, CoverageAgent.ask)            *)
(* Sequences are 1-based here; the Python source is 0-based.  A chunk is   *)
(* recorded by the 1-based index of its first sentence (start) and the     *)
(* 1-based index one past its last sentence (end), so the source's         *)
(* sentences[start_sent_idx : i] is start..end-1.                          *)
(***************************************************************************)
EXTENDS Integers, Sequences, FiniteSets, TLC

\* ------------------------------------------------------------------------
\* Bounds of the model
\* ------------------------------------------------------------------------
MaxSents == 4
MaxSentTokens == 3
MaxTarget == 4
MaxOverlap == 3
MaxVariants == 3        \* largest num_variants asked of expand_query
MaxGenLen == 2          \* longest JSON array the generation service returns
MaxRawLen == 4          \* longest generation output, in text pieces
NumChunkIds == 2        \* chunk ids the vector store may hold
MaxScore == 2           \* similarity scores are 1..MaxScore
MaxHitsPerQuery == 2    \* top_k_per_query
MaxFinalTopK == 2       \* largest final_top_k
MaxAnswerLen == 3       \* longest answer of the generation service, in text pieces
MaxWrapDepth == 2       \* deepest nesting of {type, value} wrappers
MaxPages == 2           \* pages of the document of the section lookup
MaxLines == 2           \* lines of a page
MaxLineLen == 1         \* characters of a line
MaxOffset == 4          \* largest chunk start offset
MaxDocSents == 3        \* sentences of a document whose offsets are tracked
MaxDocTok == 1          \* tokens of such a sentence
MaxSentChars == 2       \* characters of such a sentence
MaxGap == 2             \* characters between two sentences
MaxIngestIds == 3       \* chunk ids that may be ingested
MaxIngestLen == 2       \* chunks of one ingested list
MaxIngestCalls == 2     \* ingest_chunks calls
MaxInputSuffix == 1     \* largest number a folder file's own name ends with
MaxDedupCalls == 3      \* files of the folder
MaxChainLen == 3        \* pieces of a text returned to the answer chain

\* Program constants
NUM_QUERY_VARIANTS == 3

\* ------------------------------------------------------------------------
\* State
\* ------------------------------------------------------------------------
VARIABLES
    \* segmenter (chunk_document)
    sent_tokens,      \* token count of every sentence, <<>> for a blank document
    target_tokens,
    overlap_tokens,
    i,                \* cursor into the sentence list
    chunks,           \* chunks emitted so far
    cpc,              \* "loop" while inside chunk_document, "done" after return
    \* query expansion (expand_query)
    question,         \* the user's question, a sequence of characters
    num_variants,     \* n
    xOutcome,         \* what the generation service did for the expansion call
    xVariants,        \* list returned by expand_query
    xRaised,          \* TRUE when expand_query let an exception escape
    xpc,              \* "call" before expand_query ran, "done" after
    \* retrieval (MultiQueryRetriever.retrieve)
    collection,       \* chunk ids held by the vector store
    final_top_k,
    variants,         \* list expand_query returned to retrieve
    all_queries,
    per_query_hits,   \* hit list obtained for each query, in query order
    all_hits,
    retrieval,        \* the dict returned by retrieve
    rpc,              \* "expand", "query", "done"
    \* coverage agent (CoverageAgent.ask)
    filename_filter,  \* "" stands for None
    ask_chunks,       \* the local list "chunks" of ask
    hits_returned,    \* number of hits the vector store returned to retrieve
    gen_calls,        \* answer-generation calls issued so far
    raw_response,     \* what the answer-generation call did
    parsed,           \* object returned by _extract_json
    result,           \* verdict under construction / returned
    trace,            \* steps of ask performed so far, in order
    apc,              \* "start", "query", "filter", "call", "parse",
                      \* "validate", "backfill", "returned", "raised"
    \* _validate_response on its own
    vdata,            \* the parsed object passed in
    vresult,          \* what _validate_response(vdata) did
    vagain,           \* what _validate_response did on its own result
    vpc,              \* "start", "once", "twice"
    \* section lookup (_section_for_offset)
    spages,           \* the pages of the document, each a sequence of lines
    soffset,          \* the start offset of the chunk
    stitle,           \* the section title computed for the chunk
    spc,              \* "start", "done"
    \* segmenter offsets (chunk_document)
    sent_chars,       \* shape of every sentence in the concatenated document
    spans,            \* offsets and pages of the chunks emitted so far
    \* ingestion (EmbeddingStore.ingest_chunks)
    stored,           \* chunk ids held by the collection
    ingest_list,      \* chunk ids of the list passed to the last ingest_chunks call
    ingest_force,     \* the force flag of that call
    summary,          \* the summary dict it returned
    ingest_calls,     \* number of ingest_chunks calls so far
    \* downloader (deduplicate_filename)
    seen,             \* the seen map, as the list of its entries in insertion order
    inputs,           \* the names passed to deduplicate_filename so far
    returned,         \* the names it returned, in call order
    \* answer chain (AnswerChain.answer)
    chain_chunks,     \* the list chunks of answer
    chain_raw,        \* what the generation call did
    chain_data,       \* the dict returned by _parse_response
    chain_result,     \* the dict returned by answer
    chpc              \* start, call, parse, backfill, returned or raised

chunkVars == <<sent_tokens, target_tokens, overlap_tokens, i, chunks, cpc>>

expandVars == <<xOutcome, xVariants, xRaised, xpc>>

questionVars == <<question, num_variants>>

retrieveVars == <<collection, final_top_k, variants, all_queries, per_query_hits,
                  all_hits, retrieval, rpc>>

askVars == <<filename_filter, ask_chunks, hits_returned, gen_calls,
             raw_response, parsed, result, trace, apc>>

validateVars == <<vdata, vresult, vagain, vpc>>

sectionVars == <<spages, soffset, stitle, spc>>

offsetVars == <<sent_chars, spans>>

ingestVars == <<stored, ingest_list, ingest_force, summary, ingest_calls>>

dedupVars == <<seen, inputs, returned>>

chainVars == <<chain_chunks, chain_raw, chain_data, chain_result, chpc>>

vars == <<chunkVars, questionVars, expandVars, retrieveVars, askVars, validateVars,
          sectionVars,
          offsetVars,
          ingestVars,
          dedupVars,
          chainVars>>

\* ------------------------------------------------------------------------
\* Helpers
\* ------------------------------------------------------------------------
Max(a, b) == IF a >= b THEN a ELSE b

Min(a, b) == IF a <= b THEN a ELSE b

\* all sequences over S of length lo..hi
SeqsBetween(S, lo, hi) == UNION {[1..n -> S] : n \in lo..hi}

\* sum of toks[a..b] (0 when the range is empty)
RECURSIVE SumRange(_, _, _)
SumRange(toks, a, b) == IF a > b THEN 0 ELSE toks[a] + SumRange(toks, a + 1, b)

\* ------------------------------------------------------------------------
\* Segmenter: chunk_document
\* ------------------------------------------------------------------------

\* The accumulation loop: starting at cursor k with running total tot, take
\* sentences while the total stays within the target.  Yields the cursor and
\* the running total after the loop.
RECURSIVE AccumulateBroken(_, _, _, _)
AccumulateBroken(toks, target, k, tot) ==
    IF k <= Len(toks) /\ tot <= target
    THEN AccumulateBroken(toks, target, k + 1, tot + toks[k])
    ELSE [i |-> k, tok |-> tot]

RECURSIVE Accumulate(_, _, _, _)
Accumulate(toks, target, k, tot) ==
    IF k <= Len(toks) /\ tot + toks[k] <= target
    THEN Accumulate(toks, target, k + 1, tot + toks[k])
    ELSE [i |-> k, tok |-> tot]

\* The accumulation loop followed by the forced inclusion of a sentence that
\* alone exceeds the target.
FillChunkBroken(toks, target, start) ==
    Accumulate(toks, target, start, 0)

FillChunk(toks, target, start) ==
    LET acc == Accumulate(toks, target, start, 0)
    IN  IF acc.i = start /\ start <= Len(toks)
        THEN [i |-> start + 1, tok |-> toks[start]]
        ELSE acc

\* The rewind loop: walk back from sentence j towards start while the
\* rewound total is below the overlap budget; yields rewind_count.
RECURSIVE RewindCountBroken(_, _, _, _, _, _)
RewindCountBroken(toks, overlap, start, j, rtok, rcount) ==
    IF j >= start /\ rtok <= overlap
    THEN RewindCountBroken(toks, overlap, start, j - 1, rtok + toks[j], rcount + 1)
    ELSE rcount

RECURSIVE RewindCount(_, _, _, _, _, _)
RewindCount(toks, overlap, start, j, rtok, rcount) ==
    IF j >= start /\ rtok < overlap
    THEN RewindCount(toks, overlap, start, j - 1, rtok + toks[j], rcount + 1)
    ELSE rcount

\* Cursor after the overlap rewind of a chunk start..e-1.
RewindCursorBroken(toks, overlap, start, e) ==
    e - RewindCount(toks, overlap, start, e - 1, 0, 0)

RewindCursor(toks, overlap, start, e) ==
    Max(e - RewindCount(toks, overlap, start, e - 1, 0, 0), start + 1)

InitChunk ==
    /\ sent_tokens \in SeqsBetween(1..MaxSentTokens, 0, MaxSents)
    /\ target_tokens \in 1..MaxTarget
    /\ overlap_tokens \in 0..MaxOverlap
    /\ i = 1
    /\ chunks = <<>>
    /\ cpc = "loop"

\* One iteration of the outer while loop: build a chunk, emit it, rewind.
\* An iteration that gathered no sentence breaks out of the loop.  The guard
\* on Len(chunks) only keeps the state space finite: start indices strictly
\* increase, so there are never more chunks than sentences.
ChunkStep ==
    /\ cpc = "loop"
    /\ i <= Len(sent_tokens)
    /\ Len(chunks) <= Len(sent_tokens)
    /\ LET start == i
           fill == FillChunk(sent_tokens, target_tokens, start)
       IN  IF fill.i = start
           THEN /\ cpc' = "done"
                /\ UNCHANGED <<i, chunks>>
           ELSE /\ chunks' = Append(chunks, [start |-> start, end |-> fill.i,
                                             token_count |-> fill.tok])
                /\ i' = IF fill.i <= Len(sent_tokens)
                        THEN RewindCursor(sent_tokens, overlap_tokens, start, fill.i)
                        ELSE fill.i
                /\ cpc' = "loop"
    /\ UNCHANGED <<sent_tokens, target_tokens, overlap_tokens>>

\* The loop exits (or the document is blank) and the chunk list is returned.
ChunkReturn ==
    /\ cpc = "loop"
    /\ i > Len(sent_tokens)
    /\ cpc' = "done"
    /\ UNCHANGED <<sent_tokens, target_tokens, overlap_tokens, i, chunks>>

\* ------------------------------------------------------------------------
\* Text
\* ------------------------------------------------------------------------
\* A string is a sequence of characters.  The two hint prefixes of the
\* heuristic expansion are single lower-case pieces of text.
CoverageHint == <<"coverage policy benefits ">>

ExclusionHint == <<"exclusions waiting period sub-limit ">>

\* str.lower() on one character
LowerChar(c) ==
    CASE c = "K" -> "k"
      [] c = "N" -> "n"
      [] c = "E" -> "e"
      [] c = "H" -> "h"
      [] OTHER -> c

\* str.lower()
Lower(str) == [k \in 1..Len(str) |-> LowerChar(str[k])]

\* seq[:n] for n >= 0
Take(seq, n) == SubSeq(seq, 1, Min(n, Len(seq)))

\* the questions asked
Questions == {<<"k", "n", "e", "e">>, <<"K", "n", "e", "e">>}

\* ------------------------------------------------------------------------
\* Generation service, as seen by expand_query
\* ------------------------------------------------------------------------
\* The text returned by the service is a sequence of pieces:
\*   "FENCE"  a run of three backticks
\*   "NL"     a newline
\*   "TXT"    text that is neither whitespace nor JSON nor a fence
\*   "ARR"    the text of a JSON array, whose elements are the payload
\*   "OBJ"    the text of a JSON value that is not an array
RawPieces == {"FENCE", "NL", "TXT", "ARR", "OBJ"}

\* elements of the JSON array: strings and a number
StrElem(chars) == [t |-> "str", s |-> chars, n |-> 0]

NumElem(k) == [t |-> "num", s |-> <<>>, n |-> k]

GenElems == {StrElem(<<"K", "N", "E", "E">>), StrElem(<<"h", "i", "p">>),
             StrElem(<<"H", "i", "p">>), NumElem(5)}

DigitChar(k) == CASE k = 0 -> "0" [] k = 1 -> "1" [] k = 2 -> "2" [] k = 3 -> "3"
                  [] k = 4 -> "4" [] k = 5 -> "5" [] k = 6 -> "6" [] k = 7 -> "7"
                  [] k = 8 -> "8" [] OTHER -> "9"

\* str(v) of an array element
PyStr(e) == IF e.t = "str" THEN e.s ELSE <<DigitChar(e.n)>>

\* str.strip(): drop leading and trailing whitespace
RECURSIVE LStrip(_)
LStrip(txt) ==
    IF txt # <<>> /\ Head(txt) = "NL" THEN LStrip(Tail(txt)) ELSE txt

RECURSIVE RStrip(_)
RStrip(txt) ==
    IF txt # <<>> /\ txt[Len(txt)] = "NL"
    THEN RStrip(SubSeq(txt, 1, Len(txt) - 1))
    ELSE txt

Strip(txt) == RStrip(LStrip(txt))

\* index of the first / last occurrence of piece p in txt, 0 if none
FirstIndex(txt, p) ==
    IF \E k \in 1..Len(txt) : txt[k] = p
    THEN CHOOSE k \in 1..Len(txt) :
            txt[k] = p /\ \A m \in 1..(k - 1) : txt[m] # p
    ELSE 0

LastIndex(txt, p) ==
    IF \E k \in 1..Len(txt) : txt[k] = p
    THEN CHOOSE k \in 1..Len(txt) :
            txt[k] = p /\ \A m \in (k + 1)..Len(txt) : txt[m] # p
    ELSE 0

\* cleaned.split("\n", 1)[-1]: the text after the first newline, or the
\* whole text when it has no newline
AfterFirstNewline(txt) ==
    IF FirstIndex(txt, "NL") = 0 THEN txt
    ELSE SubSeq(txt, FirstIndex(txt, "NL") + 1, Len(txt))

\* cleaned.rsplit("```", 1)[0]: the text before the last fence
BeforeLastFence(txt) ==
    IF LastIndex(txt, "FENCE") = 0 THEN txt
    ELSE SubSeq(txt, 1, LastIndex(txt, "FENCE") - 1)

\* the fence stripping of expand_query
StripFences(raw) ==
    LET c0 == Strip(raw)
        c1 == IF c0 # <<>> /\ Head(c0) = "FENCE" THEN AfterFirstNewline(c0) ELSE c0
        c2 == IF c1 # <<>> /\ c1[Len(c1)] = "FENCE" THEN BeforeLastFence(c1) ELSE c1
    IN  Strip(c2)

\* json.loads(cleaned): "list", "other" (a JSON value that is no list) or
\* "error" (JSONDecodeError)
JsonLoadsKind(cleaned) ==
    IF cleaned = <<"ARR">> THEN "list"
    ELSE IF cleaned = <<"OBJ">> THEN "other"
    ELSE "error"

\* what the generation service may do on one call
ServiceFailures == {"ConnectionError", "Timeout", "HTTPError", "BadBody"}

Failure(kind) == [kind |-> kind, raw |-> <<>>, payload |-> <<>>]

Reply(raw, payload) == [kind |-> "ok", raw |-> raw, payload |-> payload]

RawTexts == {t \in SeqsBetween(RawPieces, 0, MaxRawLen) : Strip(t) = t}

GenOutcomes ==
    {Failure(k) : k \in ServiceFailures}
    \cup {Reply(r, <<>>) : r \in RawTexts}
    \cup {Reply(r, a) : r \in {t \in RawTexts : \E k \in 1..Len(t) : t[k] = "ARR"},
                       a \in SeqsBetween(GenElems, 1, MaxGenLen)}

\* ------------------------------------------------------------------------
\* Retrieval engine: expand_query
\* ------------------------------------------------------------------------
_heuristic_expand(q, n) ==
    Take(<<q, CoverageHint \o q, ExclusionHint \o q>>, n)

\* "except Exception" catches every failure raised inside the try block:
\* requests' ConnectionError, Timeout and HTTPError, and the KeyError or
\* ValueError of a malformed body, all derive from Exception.
CaughtByExpandBroken(kind) == kind = "ConnectionError"

CaughtByExpand(kind) == kind \in ServiceFailures \cup {"JSONDecodeError"}

\* The result of expand_query(question, n) for one behaviour of the service:
\* the returned list and whether an exception escaped.
expand_query(q, n, outcome) ==
    LET failed == IF outcome.kind # "ok" THEN outcome.kind
                  ELSE IF JsonLoadsKind(StripFences(outcome.raw)) = "error"
                       THEN "JSONDecodeError"
                       ELSE "none"
    IN  IF failed # "none"
        THEN IF CaughtByExpand(failed)
             THEN [variants |-> _heuristic_expand(q, n), raised |-> FALSE]
             ELSE [variants |-> <<>>, raised |-> TRUE]
        ELSE IF JsonLoadsKind(StripFences(outcome.raw)) = "list"
                /\ Len(outcome.payload) >= 1
             THEN [variants |-> [k \in 1..Min(n, Len(outcome.payload)) |->
                                     PyStr(outcome.payload[k])],
                   raised |-> FALSE]
             ELSE [variants |-> _heuristic_expand(q, n), raised |-> FALSE]

InitQuestion ==
    /\ question \in Questions
    /\ num_variants \in 0..MaxVariants

InitExpand ==
    /\ xOutcome = Failure("ConnectionError")
    /\ xVariants = <<>>
    /\ xRaised = FALSE
    /\ xpc = "call"

\* a call of expand_query(question, num_variants)
ExpandQuery ==
    /\ xpc = "call"
    /\ \E outcome \in GenOutcomes :
          LET r == expand_query(question, num_variants, outcome)
          IN  /\ xOutcome' = outcome
              /\ xVariants' = r.variants
              /\ xRaised' = r.raised
    /\ xpc' = "done"

\* ------------------------------------------------------------------------
\* Retrieval engine: MultiQueryRetriever.retrieve
\* ------------------------------------------------------------------------
ChunkIds == 1..NumChunkIds

\* a hit of the vector store; its text and metadata are those of the chunk
Hit(cid, score) == [chunk_id |-> cid, score |-> score]

\* EmbeddingStore.query(q, n_results): nothing from an empty collection,
\* otherwise at most min(n_results, count) hits on distinct chunks of the
\* collection, best score first
StoreAnswers(coll, n_results) ==
    IF coll = {} THEN {<<>>}
    ELSE {h \in SeqsBetween({Hit(c, sc) : c \in coll, sc \in 1..MaxScore},
                            0, Min(n_results, Cardinality(coll))) :
            /\ \A a, b \in 1..Len(h) : a # b => h[a].chunk_id # h[b].chunk_id
            /\ \A a \in 1..Len(h) - 1 : h[a].score >= h[a + 1].score}

\* [question] + [v for v in variants if v.lower() != question.lower()]
KeepVariantBroken(q, v) == v # q

KeepVariant(q, v) == Lower(v) # Lower(q)

AllQueries(q, vs) ==
    <<q>> \o SelectSeq(vs, LAMBDA v : KeepVariant(q, v))

\* concatenation of a list of lists (all_hits.extend(hits) per query)
RECURSIVE Flatten(_)
Flatten(lists) ==
    IF lists = <<>> THEN <<>> ELSE Head(lists) \o Flatten(Tail(lists))

\* position of chunk id cid in the list best, 0 if absent
IndexOfId(best, cid) ==
    IF \E k \in 1..Len(best) : best[k].chunk_id = cid
    THEN CHOOSE k \in 1..Len(best) : best[k].chunk_id = cid
    ELSE 0

\* One step of the de-duplication loop.  best_by_id is an insertion-ordered
\* dict: a new chunk id goes to the end, a better hit replaces in place.
MergeHitBroken(best, hit) ==
    LET k == IndexOfId(best, hit.chunk_id)
    IN  IF k = 0 THEN Append(best, hit) ELSE best

MergeHit(best, hit) ==
    LET k == IndexOfId(best, hit.chunk_id)
    IN  IF k = 0 THEN Append(best, hit)
        ELSE IF hit.score > best[k].score THEN [best EXCEPT ![k] = hit]
        ELSE best

RECURSIVE BestById(_, _)
BestById(best, hits) ==
    IF hits = <<>> THEN best
    ELSE BestById(MergeHit(best, Head(hits)), Tail(hits))

\* sorted(values, key=score, reverse=True): a stable sort, hits of equal
\* score keep their order.  Insertion of hit h into a sorted list, behind
\* every hit whose score is at least h's.
RECURSIVE InsertDesc(_, _)
InsertDesc(sorted, h) ==
    IF sorted = <<>> THEN <<h>>
    ELSE IF Head(sorted).score >= h.score
         THEN <<Head(sorted)>> \o InsertDesc(Tail(sorted), h)
         ELSE <<h>> \o sorted

SortByScoreDescBroken(hits) == hits

RECURSIVE SortByScoreDesc(_)
SortByScoreDesc(hits) ==
    IF hits = <<>> THEN <<>>
    ELSE InsertDesc(SortByScoreDesc(SubSeq(hits, 1, Len(hits) - 1)),
                    hits[Len(hits)])

\* steps 3 and 4 of retrieve and the returned dict
RetrieveResult(q, queries, hits, top_k) ==
    LET best == BestById(<<>>, hits)
    IN  [question |-> q,
         query_variants |-> queries,
         total_retrieved |-> Len(hits),
         unique_chunks |-> Len(best),
         results |-> Take(SortByScoreDesc(best), top_k)]

NoRetrieval ==
    [question |-> <<>>, query_variants |-> <<>>, total_retrieved |-> 0,
     unique_chunks |-> 0, results |-> <<>>]

InitRetrieve ==
    /\ collection \in SUBSET ChunkIds
    /\ final_top_k = 0
    /\ variants = <<>>
    /\ all_queries = <<>>
    /\ per_query_hits = <<>>
    /\ all_hits = <<>>
    /\ retrieval = NoRetrieval
    /\ rpc = "expand"

\* the lists expand_query(q, n) may return
Expansions(q, n) ==
    {expand_query(q, n, outcome).variants :
        outcome \in {o \in GenOutcomes : ~expand_query(q, n, o).raised}}

\* retrieve(question, num_variants=n) is entered; step 1: expand the
\* question and build the list of queries
RetrieveExpand ==
    /\ rpc = "expand"
    /\ \E q \in Questions, n \in 0..MaxVariants :
          \E vs \in Expansions(q, n) :
              /\ question' = q
              /\ variants' = vs
              /\ all_queries' = AllQueries(q, vs)
    /\ rpc' = "query"
    /\ UNCHANGED <<num_variants, collection, final_top_k, per_query_hits,
                   all_hits, retrieval>>

\* step 2, one iteration: query the store with the next query
RetrieveQuery ==
    /\ rpc = "query"
    /\ Len(per_query_hits) < Len(all_queries)
    /\ \E hits \in StoreAnswers(collection, MaxHitsPerQuery) :
          /\ per_query_hits' = Append(per_query_hits, hits)
          /\ all_hits' = all_hits \o hits
    /\ UNCHANGED <<collection, final_top_k, variants, all_queries, retrieval, rpc>>

\* steps 3 and 4: de-duplicate, sort, truncate to the final_top_k the
\* caller passed, return
RetrieveReturn ==
    /\ rpc = "query"
    /\ Len(per_query_hits) = Len(all_queries)
    /\ \E top_k \in 0..MaxFinalTopK :
          /\ final_top_k' = top_k
          /\ retrieval' = RetrieveResult(question, all_queries, all_hits, top_k)
    /\ rpc' = "done"
    /\ UNCHANGED <<collection, variants, all_queries, per_query_hits, all_hits>>

\* ------------------------------------------------------------------------
\* Coverage agent: JSON values
\* ------------------------------------------------------------------------
\* A parsed JSON value.  t is its type; s the text of a string; n a number
\* in tenths (0.8 is 8, 5 is 50); items the elements of a list or the
\* values of a dict; keys the keys of a dict, in insertion order.
JNull == [t |-> "null", s |-> "", n |-> 0, items |-> <<>>, keys |-> <<>>]

JStr(x) == [t |-> "str", s |-> x, n |-> 0, items |-> <<>>, keys |-> <<>>]

JNum(x) == [t |-> "num", s |-> "", n |-> x, items |-> <<>>, keys |-> <<>>]

JList(xs) == [t |-> "list", s |-> "", n |-> 0, items |-> xs, keys |-> <<>>]

JDict(ks, vs) == [t |-> "dict", s |-> "", n |-> 0, items |-> vs, keys |-> ks]

\* an integer literal too large for a float (json.loads gives a Python int
\* of any size); n is not in tenths here
JBig == [t |-> "bigint", s |-> "", n |-> 1000000000, items |-> <<>>, keys |-> <<>>]

KeyIndex(d, k) ==
    IF \E j \in 1..Len(d.keys) : d.keys[j] = k
    THEN CHOOSE j \in 1..Len(d.keys) : d.keys[j] = k
    ELSE 0

HasKey(d, k) == KeyIndex(d, k) # 0

\* d.get(k, default)
Get(d, k, default) == IF HasKey(d, k) THEN d.items[KeyIndex(d, k)] ELSE default

\* str.strip() on the strings of the model
StripStr(x) ==
    CASE x = " " -> ""
      [] x = " wait " -> "wait"
      [] x = " ok " -> "ok"
      [] x = "  padded unrecognised note  " -> "padded unrecognised note"
      [] OTHER -> x

\* str.capitalize() on the strings of the model
CapitalizeBroken(x) == x

Capitalize(x) ==
    CASE x \in {"yes", "YES", "Yes"} -> "Yes"
      [] x \in {"no", "NO", "No", "nO"} -> "No"
      [] x \in {"partial", "PARTIAL", "Partial"} -> "Partial"
      [] x \in {"unknown", "UNKNOWN", "Unknown"} -> "Unknown"
      [] x = "maybe" -> "Maybe"
      [] OTHER -> x

\* str.lower() on the strings of the model
LowerStr(x) ==
    CASE x = "A.PDF" -> "a.pdf"
      [] x = "A" -> "a"
      [] x \in {"YES", "Yes"} -> "yes"
      [] x \in {"NO", "No", "nO"} -> "no"
      [] x \in {"PARTIAL", "Partial"} -> "partial"
      [] x \in {"UNKNOWN", "Unknown"} -> "unknown"
      [] OTHER -> x

\* "sub in text" on the lower-case strings of the model
Contains(sub, text) ==
    \/ sub = ""
    \/ sub = text
    \/ <<sub, text>> \in {<<"a", "a.pdf">>, <<"a.pdf", "a.pdf">>,
                          <<"b", "b.pdf">>, <<".pdf", "a.pdf">>,
                          <<".pdf", "b.pdf">>}

\* float(x) of a string: the number in tenths, or a ValueError
ParseFloat(x) ==
    CASE x = "0.7" -> [ok |-> TRUE, n |-> 7]
      [] x = "5" -> [ok |-> TRUE, n |-> 50]
      [] x = "3" -> [ok |-> TRUE, n |-> 30]
      [] OTHER -> [ok |-> FALSE, n |-> 0]

\* int(x) of a string: the integer, or a ValueError
ParseInt(x) ==
    CASE x = "5" -> [ok |-> TRUE, n |-> 5]
      [] x = "3" -> [ok |-> TRUE, n |-> 3]
      [] OTHER -> [ok |-> FALSE, n |-> 0]

DigitStr(k) == CASE k = 0 -> "0" [] k = 1 -> "1" [] k = 2 -> "2" [] k = 3 -> "3"
                 [] k = 4 -> "4" [] k = 5 -> "5" [] k = 6 -> "6" [] k = 7 -> "7"
                 [] k = 8 -> "8" [] OTHER -> "9"

RECURSIVE NatStr(_)
NatStr(k) == IF k < 10 THEN DigitStr(k) ELSE NatStr(k \div 10) \o DigitStr(k % 10)

\* str(x) of a number given in tenths
NumStr(x) ==
    LET a == IF x < 0 THEN 0 - x ELSE x
        body == IF a % 10 = 0 THEN NatStr(a \div 10)
                ELSE NatStr(a \div 10) \o "." \o DigitStr(a % 10)
    IN  IF x < 0 THEN "-" \o body ELSE body

\* str(v)
PyStrOf(v) ==
    CASE v.t = "str" -> v.s
      [] v.t = "num" -> NumStr(v.n)
      [] v.t = "bigint" -> NatStr(v.n)
      [] v.t = "null" -> "None"
      [] v.t = "list" -> IF v.items = <<>> THEN "[]" ELSE "[...]"
      [] OTHER -> IF v.keys = <<>> THEN "{}" ELSE "{...}"

\* int(x) of a number given in tenths: truncation towards zero
TruncTenths(x) == IF x >= 0 THEN x \div 10 ELSE 0 - ((0 - x) \div 10)

\* _safe_int
_safe_int(v) ==
    CASE v.t = "num" -> TruncTenths(v.n)
      [] v.t = "bigint" -> v.n
      [] v.t = "str" -> IF ParseInt(StripStr(v.s)).ok THEN ParseInt(StripStr(v.s)).n ELSE 0
      [] OTHER -> 0

\* " ".join(strs)
RECURSIVE JoinSpace(_)
JoinSpace(strs) ==
    IF strs = <<>> THEN ""
    ELSE IF Len(strs) = 1 THEN strs[1]
    ELSE strs[1] \o " " \o JoinSpace(Tail(strs))

\* _flatten_value: unwrap {type, value} wrappers
RECURSIVE _flatten_valueBroken(_)
_flatten_valueBroken(val) ==
    IF val.t = "dict"
    THEN IF HasKey(val, "value") /\ Len(val.keys) <= 3
         THEN _flatten_valueBroken(Get(val, "value", JNull))
         ELSE JDict(val.keys,
                    [j \in 1..Len(val.items) |-> _flatten_valueBroken(val.items[j])])
    ELSE val

RECURSIVE _flatten_value(_)
_flatten_value(val) ==
    IF val.t = "dict"
    THEN IF HasKey(val, "value") /\ Len(val.keys) <= 3
         THEN _flatten_value(Get(val, "value", JNull))
         ELSE JDict(val.keys,
                    [j \in 1..Len(val.items) |-> _flatten_value(val.items[j])])
    ELSE IF val.t = "list"
         THEN JList([j \in 1..Len(val.items) |-> _flatten_value(val.items[j])])
         ELSE val

\* ------------------------------------------------------------------------
\* Coverage agent: verdicts
\* ------------------------------------------------------------------------
CoveredValues == {"Yes", "No", "Partial", "Unknown"}

\* The _meta block: the keys it has and the values the model follows.
Meta(ks, fb, err, n) ==
    [keys |-> ks, fallback |-> fb, error |-> err, chunks_retrieved |-> n]

NoMeta == Meta({}, FALSE, "", 0)

Verdict(cov, conf, expl, cits, cavs, meta) ==
    [covered |-> cov, confidence |-> conf, explanation |-> expl,
     citations |-> cits, caveats |-> cavs, meta |-> meta]

NoVerdict == Verdict("", 0, "", <<>>, <<>>, NoMeta)

Citation(f, p, sec, q) == [file |-> f, page |-> p, section |-> sec, quote |-> q]

\* float(conf) raises OverflowError for an int beyond the float range;
\* "except (TypeError, ValueError)" does not catch it
ConfidenceRaises(conf) == conf.t = "bigint"

\* the confidence of _validate_response, in tenths
Confidence(conf) ==
    LET clamp(x) == Max(0, Min(10, x))
    IN  CASE conf.t = "num" -> clamp(conf.n)
          [] conf.t = "str" ->
                IF ParseFloat(StripStr(conf.s)).ok
                THEN clamp(ParseFloat(StripStr(conf.s)).n)
                ELSE 0
          [] OTHER -> 0

\* one entry of raw_citations that is a dict
MapCitation(c0) ==
    LET c == _flatten_value(c0)
    IN  Citation(PyStrOf(Get(c, "file", Get(c, "filename", JStr("")))),
                 _safe_int(Get(c, "page", Get(c, "page_number", JNum(0)))),
                 PyStrOf(Get(c, "section", Get(c, "section_title", JStr("")))),
                 PyStrOf(Get(c, "quote", Get(c, "text", JStr("")))))

\* the caveats contributed by one entry of raw_caveats
RECURSIVE FirstStringValue(_)
FirstStringValue(vals) ==
    IF vals = <<>> THEN <<>>
    ELSE IF Head(vals).t = "str" /\ StripStr(Head(vals).s) # ""
         THEN <<StripStr(Head(vals).s)>>
         ELSE FirstStringValue(Tail(vals))

MapCaveat(cv) ==
    IF cv.t = "str" /\ StripStr(cv.s) # "" THEN <<StripStr(cv.s)>>
    ELSE IF cv.t = "dict" THEN FirstStringValue(cv.items)
    ELSE IF cv.t # "null" THEN <<PyStrOf(cv)>>
    ELSE <<>>

RECURSIVE MapCaveats(_)
MapCaveats(cvs) ==
    IF cvs = <<>> THEN <<>> ELSE MapCaveat(Head(cvs)) \o MapCaveats(Tail(cvs))

KnownKeys == {"covered", "answer", "confidence", "explanation", "citations",
              "caveats", "type", "value"}

\* the unrecognised top-level string fields longer than 10 characters
Extras(data) ==
    LET idx == SelectSeq([j \in 1..Len(data.keys) |-> j],
                         LAMBDA j : /\ data.keys[j] \notin KnownKeys
                                    /\ data.items[j].t = "str"
                                    /\ Len(data.items[j].s) > 10)
    IN  [j \in 1..Len(idx) |-> data.items[idx[j]].s]

\* _validate_response: the normalised verdict, or raised when the flattened
\* value is no dict (AttributeError on data.get) or the confidence is an
\* int beyond the float range (OverflowError)
_validate_response(data0) ==
    LET data == _flatten_value(data0)
        covered == Get(data, "covered", Get(data, "answer", JStr("Unknown")))
        explanation == Get(data, "explanation", JStr(""))
        expl == IF explanation.t = "str" THEN StripStr(explanation.s)
                ELSE IF explanation.t = "dict" /\ HasKey(explanation, "value")
                     THEN StripStr(PyStrOf(Get(explanation, "value", JNull)))
                     ELSE PyStrOf(explanation)
        raw_citations == Get(data, "citations", JList(<<>>))
        citations ==
            IF raw_citations.t = "list"
            THEN LET ds == SelectSeq(raw_citations.items, LAMBDA c : c.t = "dict")
                 IN  [j \in 1..Len(ds) |-> MapCitation(ds[j])]
            ELSE <<>>
        raw_caveats == Get(data, "caveats", JList(<<>>))
        caveats ==
            IF raw_caveats.t = "list" THEN MapCaveats(raw_caveats.items)
            ELSE IF raw_caveats.t = "str" /\ StripStr(raw_caveats.s) # ""
                 THEN <<StripStr(raw_caveats.s)>>
                 ELSE <<>>
        extras == Extras(data)
    IN  IF data.t # "dict" \/ ConfidenceRaises(Get(data, "confidence", JNum(0)))
        THEN [raised |-> TRUE, verdict |-> NoVerdict]
        ELSE [raised |-> FALSE,
              verdict |->
                Verdict(IF covered.t = "str" /\ Capitalize(covered.s) \in CoveredValues
                        THEN Capitalize(covered.s) ELSE "Unknown",
                        Confidence(Get(data, "confidence", JNum(0))),
                        IF extras # <<>> /\ Len(expl) < 30
                        THEN JoinSpace(extras) ELSE expl,
                        citations, caveats, NoMeta)]

\* ------------------------------------------------------------------------
\* Coverage agent: retrieved chunks and citation backfill
\* ------------------------------------------------------------------------
\* Metadata and text of the chunks in the vector store.  The text is given
\* as the sentences re.split(r"(?<=[.;])\s+") finds in it.
ChunkMeta(cid) ==
    CASE cid = 0 ->
            \* a chunk that was ingested with an empty text
            [filename |-> "a.pdf", page_number |-> 9, page_end |-> 9,
             section_title |-> "Unknown",
             sentences |-> <<"">>]
      [] cid = 2 ->
            [filename |-> "b.pdf", page_number |-> 7, page_end |-> 7,
             section_title |-> "S2",
             sentences |-> <<"Dental is excluded.">>]
      [] cid = 3 ->
            [filename |-> "a.pdf", page_number |-> 6, page_end |-> 8,
             section_title |-> "Unknown",
             sentences |-> <<"Hip surgery needs approval in advance.",
                             "Knee braces are covered.">>]
      [] OTHER ->
            [filename |-> "a.pdf", page_number |-> 1, page_end |-> 5,
             section_title |-> "S1",
             sentences |-> <<"The policy covers hospitalization.",
                             "Knee replacement is included under surgical benefits.",
                             "Dental is excluded.">>]

\* set(re.findall(r"\w{3,}", s.lower())) for the sentences of the chunks
SentenceWords(sentence) ==
    CASE sentence = "The policy covers hospitalization." ->
            {"the", "policy", "covers", "hospitalization"}
      [] sentence = "Knee replacement is included under surgical benefits." ->
            {"knee", "replacement", "included", "under", "surgical", "benefits"}
      [] sentence = "Dental is excluded." -> {"dental", "excluded"}
      [] sentence = "Hip surgery needs approval in advance." ->
            {"hip", "surgery", "needs", "approval", "advance"}
      [] sentence = "Knee braces are covered." -> {"knee", "braces", "are", "covered"}
      [] OTHER -> {}

\* set(re.findall(r"\w{3,}", question.lower()))
QuestionWords(q) ==
    IF Lower(q) = <<"k", "n", "e", "e">> THEN {"knee"} ELSE {}

\* index of the first sentence among idx with the largest overlap
RECURSIVE BestIndex(_, _, _)
BestIndex(sentences, idx, qwords) ==
    IF Len(idx) = 1 THEN idx[1]
    ELSE LET rest == BestIndex(sentences, Tail(idx), qwords)
             ov(j) == Cardinality(qwords \cap SentenceWords(sentences[j]))
         IN  IF ov(idx[1]) >= ov(rest) THEN idx[1] ELSE rest

\* _best_sentence(text, question); texts are shorter than 300 characters
_best_sentenceBroken(sentences, q) == StripStr(sentences[1])

_best_sentence(sentences, q) ==
    LET scored == SelectSeq([j \in 1..Len(sentences) |-> j],
                            LAMBDA j : Len(StripStr(sentences[j])) >= 20)
        long == SelectSeq([j \in 1..Len(sentences) |-> j],
                          LAMBDA j : Len(StripStr(sentences[j])) >= 30)
    IN  IF scored # <<>>
        THEN StripStr(sentences[BestIndex(sentences, scored, QuestionWords(q))])
        ELSE IF long # <<>> THEN StripStr(sentences[long[1]])
        ELSE JoinSpace(sentences)

\* the first of the matching chunks, as a list of at most one
FirstChunk(found) == IF found = <<>> THEN <<>> ELSE <<found[1]>>

\* the two lookups of the backfill loop for one citation
FillQuoteBroken(cit, cs, q) ==
    LET found == FirstChunk(SelectSeq(cs, LAMBDA c :
                    Contains(LowerStr(cit.file),
                             LowerStr(ChunkMeta(c.chunk_id).filename))))
    IN  IF StripStr(cit.quote) # "" \/ found = <<>> THEN cit
        ELSE [cit EXCEPT
                 !.section = ChunkMeta(found[1].chunk_id).section_title,
                 !.quote = _best_sentence(ChunkMeta(found[1].chunk_id).sentences, q)]

FillQuote(cit, cs, q) ==
    LET fname == LowerStr(cit.file)
        exact == FirstChunk(SelectSeq(cs, LAMBDA c :
                    /\ Contains(fname, LowerStr(ChunkMeta(c.chunk_id).filename))
                    /\ ChunkMeta(c.chunk_id).page_number <= cit.page
                    /\ cit.page <= ChunkMeta(c.chunk_id).page_end))
        q1 == IF exact # <<>>
              THEN _best_sentence(ChunkMeta(exact[1].chunk_id).sentences, q)
              ELSE cit.quote
        loose == FirstChunk(SelectSeq(cs, LAMBDA c :
                    Contains(fname, LowerStr(ChunkMeta(c.chunk_id).filename))))
        q2 == IF StripStr(q1) = "" /\ loose # <<>>
              THEN _best_sentence(ChunkMeta(loose[1].chunk_id).sentences, q)
              ELSE q1
    IN  IF StripStr(cit.quote) # "" THEN cit ELSE [cit EXCEPT !.quote = q2]

\* _backfill_citations
_backfill_citationsBroken(citations, cs, q) ==
    IF citations = <<>>
    THEN [j \in 1..Len(Take(cs, 3)) |->
             Citation(ChunkMeta(cs[j].chunk_id).filename,
                      ChunkMeta(cs[j].chunk_id).page_number,
                      ChunkMeta(cs[j].chunk_id).section_title,
                      _best_sentence(ChunkMeta(cs[j].chunk_id).sentences, q))]
    ELSE [j \in 1..Len(citations) |-> FillQuote(citations[j], cs, q)]

_backfill_citations(citations, cs, q) ==
    LET filled == [j \in 1..Len(citations) |-> FillQuote(citations[j], cs, q)]
        top == Take(cs, 3)
        made == [j \in 1..Len(top) |->
                    Citation(ChunkMeta(top[j].chunk_id).filename,
                             ChunkMeta(top[j].chunk_id).page_number,
                             ChunkMeta(top[j].chunk_id).section_title,
                             _best_sentence(ChunkMeta(top[j].chunk_id).sentences, q))]
        all == IF citations = <<>> THEN made ELSE filled
    IN  SelectSeq(all, LAMBDA c : StripStr(c.quote) # "")

\* ------------------------------------------------------------------------
\* Coverage agent: the answer of the generation service
\* ------------------------------------------------------------------------
\* The answer text is a sequence of pieces:
\*   "FENCE"    a run of three backticks (rendered with three quote marks)
\*   "JSONTAG"  the word json
\*   "NL"       a newline
\*   "TXT"      a sentence without braces that is no JSON
\*   "OBJ"      the text of a JSON object, parsed as the payload
\*   "ARR"      the text of a JSON array of numbers
AnswerPieces == {"FENCE", "JSONTAG", "NL", "TXT", "OBJ", "ARR"}

RenderPiece(p) ==
    CASE p = "FENCE" -> "'''"
      [] p = "JSONTAG" -> "json"
      [] p = "NL" -> "\n"
      [] p = "TXT" -> "This is not JSON at all"
      [] p = "OBJ" -> "{...}"
      [] OTHER -> "[1, 2]"

\* the characters of an answer text
RECURSIVE Render(_)
Render(txt) == IF txt = <<>> THEN "" ELSE RenderPiece(Head(txt)) \o Render(Tail(txt))

\* re.sub(r"^```(?:json)?\s*\n?", "", cleaned)
DropOpeningFence(txt) ==
    LET a == Tail(txt)
        b == IF a # <<>> /\ Head(a) = "JSONTAG" THEN Tail(a) ELSE a
    IN  LStrip(b)

\* re.sub(r"\n?```\s*$", "", cleaned)
DropClosingFence(txt) ==
    IF txt # <<>> /\ txt[Len(txt)] = "FENCE"
    THEN LET a == SubSeq(txt, 1, Len(txt) - 1)
         IN  IF a # <<>> /\ a[Len(a)] = "NL" THEN SubSeq(a, 1, Len(a) - 1) ELSE a
    ELSE txt

\* the sample objects the generation service answers with
AnswerObjects ==
    {JDict(<<"covered", "confidence", "explanation", "citations", "caveats">>,
           <<JStr("Yes"), JNum(9), JStr("Covered with conditions."),
             JList(<<JDict(<<"file", "page", "section", "quote">>,
                           <<JStr("a.pdf"), JNum(30), JStr("S1"), JStr("")>>)>>),
             JList(<<JStr("30-day wait")>>)>>),
     JDict(<<"covered", "confidence", "explanation", "citations", "caveats">>,
           <<JDict(<<"type", "value">>, <<JStr("string"), JStr("yes")>>),
             JDict(<<"type", "value">>, <<JStr("number"), JNum(50)>>),
             JStr("ok"), JList(<<>>), JStr(" wait ")>>),
     JDict(<<"answer", "confidence", "citations", "note">>,
           <<JStr("maybe"), JStr("0.7"),
             JList(<<JDict(<<"filename", "page_number", "text">>,
                           <<JStr("zzz.pdf"), JStr("x"), JStr("")>>),
                     JStr("stray")>>),
             JStr("See the schedule of benefits.")>>),
     JDict(<<"covered", "confidence", "citations", "caveats">>,
           <<JStr("PARTIAL"), JNum(0 - 3),
             JList(<<JDict(<<"file", "page", "quote">>,
                           <<JStr("b.pdf"), JNum(70), JStr(" ")>>),
                     JDict(<<"file", "page", "quote">>,
                           <<JStr("a.pdf"), JNum(990), JStr("As quoted.")>>)>>),
             JList(<<JStr(""), JNull, JDict(<<"caveat">>, <<JStr("limit")>>)>>)>>),
     JDict(<<"covered", "answer", "confidence", "explanation">>,
           <<JNum(10), JStr("nO"), JList(<<>>), JNull>>),
     JDict(<<"value">>, <<JStr("Yes")>>),
     JDict(<<>>, <<>>)}

\* _extract_json: the parsed dict, or None
_extract_json(text, payload) ==
    LET c0 == Strip(text)
        cleaned == IF c0 # <<>> /\ Head(c0) = "FENCE"
                   THEN Strip(DropClosingFence(DropOpeningFence(c0)))
                   ELSE c0
        first == FirstIndex(cleaned, "OBJ")
        last == LastIndex(cleaned, "OBJ")
    IN  IF cleaned = <<"OBJ">> THEN [none |-> FALSE, obj |-> payload]
        ELSE IF first # 0 /\ first = last THEN [none |-> FALSE, obj |-> payload]
        ELSE [none |-> TRUE, obj |-> JNull]

AnswerTexts == {t \in SeqsBetween(AnswerPieces, 0, MaxAnswerLen) : Strip(t) = t}

Answer(kind, text, payload) == [kind |-> kind, text |-> text, payload |-> payload]

NoAnswer == Answer("none", <<>>, JNull)

\* what the answer-generation call may do: fail, or return a text
AnswerOutcomes ==
    {Answer(k, <<>>, JNull) : k \in ServiceFailures}
    \cup {Answer("ok", t, JNull) :
            t \in {u \in AnswerTexts : \A k \in 1..Len(u) : u[k] # "OBJ"}}
    \cup {Answer("ok", t, o) :
            t \in {u \in AnswerTexts : \E k \in 1..Len(u) : u[k] = "OBJ"},
            o \in AnswerObjects}

\* ------------------------------------------------------------------------
\* Coverage agent: CoverageAgent.ask
\* ------------------------------------------------------------------------
FilenameFilters == {"", "a", "zzz"}

\* _fallback_response
_fallback_responseBroken(error) ==
    Verdict("Unknown", 0,
            "Could not determine coverage. The model response could not be parsed as valid JSON. Error: "
                \o error,
            <<>>, <<>>, Meta({"question", "error"}, FALSE, error, 0))

_fallback_response(error) ==
    Verdict("Unknown", 0,
            "Could not determine coverage. The model response could not be parsed as valid JSON. Error: "
                \o error,
            <<>>, <<>>, Meta({"question", "error", "fallback"}, TRUE, error, 0))

\* the verdict returned when no chunk is left
NoChunksVerdict ==
    Verdict("Unknown", 0, "No relevant policy excerpts were found for this question.",
            <<>>, <<>>,
            Meta({"question", "filename_filter", "chunks_retrieved", "total_time_s"},
                 FALSE, "", 0))

\* "if not chunks"
NoChunksBroken(cs) == FALSE

NoChunks(cs) == cs = <<>>

\* the error text of a failed generation call
ErrorText(kind) ==
    IF kind = "ConnectionError" THEN "Ollama not reachable at http://localhost:11434"
    ELSE kind

InitAsk ==
    /\ question = <<>>
    /\ num_variants = NUM_QUERY_VARIANTS
    /\ collection \in {{}, ChunkIds, {0}}
    /\ final_top_k = 0
    /\ variants = <<>>
    /\ all_queries = <<>>
    /\ per_query_hits = <<>>
    /\ all_hits = <<>>
    /\ retrieval = NoRetrieval
    /\ rpc = "done"
    /\ filename_filter = ""
    /\ ask_chunks = <<>>
    /\ hits_returned = 0
    /\ gen_calls = 0
    /\ raw_response = NoAnswer
    /\ parsed = JNull
    /\ result = NoVerdict
    /\ trace = <<>>
    /\ apc = "start"

\* ask(question, filename_filter) is entered and calls retrieve, whose step 1
\* expands the question with the default num_variants
AskExpand ==
    /\ apc = "start"
    /\ \E q \in Questions, ff \in FilenameFilters :
          \E vs \in Expansions(q, NUM_QUERY_VARIANTS) :
              /\ question' = q
              /\ filename_filter' = ff
              /\ all_queries' = AllQueries(q, vs)
    /\ trace' = Append(trace, "expand")
    /\ apc' = "query"
    /\ UNCHANGED <<num_variants, collection, final_top_k, variants, per_query_hits,
                   all_hits, retrieval, rpc, ask_chunks, hits_returned, gen_calls,
                   raw_response, parsed, result>>

\* steps 2 to 4 of retrieve, with final_top_k = top_k: the store answers
\* every query, the hits are merged and the dict is returned to ask
AskRetrieve ==
    /\ apc = "query"
    /\ \E top_k \in 0..MaxFinalTopK :
          \E lists \in [1..Len(all_queries) ->
                           StoreAnswers(collection, MaxHitsPerQuery)] :
              /\ final_top_k' = top_k
              /\ hits_returned' = Len(Flatten(lists))
              /\ retrieval' = RetrieveResult(question, all_queries,
                                             Flatten(lists), top_k)
    /\ all_queries' = <<>>
    /\ trace' = Append(trace, "retrieve")
    /\ apc' = "filter"
    /\ UNCHANGED <<question, num_variants, collection, variants, per_query_hits,
                   all_hits, rpc, filename_filter, ask_chunks, gen_calls,
                   raw_response, parsed, result>>

\* steps 1 (rest) and 2 of ask: take the results, apply the filename filter,
\* return at once when no chunk is left.  The retrieval dict is read once
\* more only for the query_variants entry of _meta, which the model leaves
\* out, so it is forgotten when ask goes on.
AskFilter ==
    /\ apc = "filter"
    /\ LET cs == IF filename_filter # ""
                 THEN SelectSeq(retrieval.results, LAMBDA c :
                          Contains(LowerStr(filename_filter),
                                   LowerStr(ChunkMeta(c.chunk_id).filename)))
                 ELSE retrieval.results
       IN  /\ ask_chunks' = cs
           /\ IF NoChunks(cs)
              THEN /\ result' = NoChunksVerdict
                   /\ apc' = "returned"
                   /\ UNCHANGED retrieval
              ELSE /\ result' = result
                   /\ apc' = "call"
                   /\ retrieval' = NoRetrieval
    /\ trace' = Append(trace, "filter")
    /\ UNCHANGED <<question, num_variants, collection, final_top_k, variants,
                   all_queries, per_query_hits, all_hits, rpc, filename_filter,
                   hits_returned, gen_calls, raw_response, parsed>>

\* "except ConnectionError" followed by "except Exception": every failure
\* of the call is caught by one of the two clauses
CaughtByAskBroken(kind) == kind = "ConnectionError"

CaughtByAsk(kind) == kind = "ConnectionError" \/ kind \in ServiceFailures

\* steps 3 and 4: the answer-generation call; every failure is caught and
\* answered with the fallback verdict
AskCall ==
    /\ apc = "call"
    /\ gen_calls' = gen_calls + 1
    /\ \E outcome \in AnswerOutcomes :
          /\ raw_response' = outcome
          /\ IF outcome.kind # "ok"
             THEN IF CaughtByAsk(outcome.kind)
                  THEN /\ result' = _fallback_response(ErrorText(outcome.kind))
                       /\ apc' = "returned"
                  ELSE /\ result' = result
                       /\ apc' = "raised"
             ELSE /\ result' = result
                  /\ apc' = "parse"
    /\ trace' = Append(trace, "generate")
    /\ UNCHANGED <<question, num_variants, retrieveVars, filename_filter,
                   ask_chunks, hits_returned, parsed>>

\* step 5, first half: parse; an unparseable text is answered with the
\* fallback verdict, its explanation replaced by the text when that is
\* longer than 20 characters
AskParse ==
    /\ apc = "parse"
    /\ LET p == _extract_json(raw_response.text, raw_response.payload)
           fb == _fallback_response("Response was not valid JSON")
           text == Render(Strip(raw_response.text))
       IN  IF p.none
           THEN /\ result' =
                      [fb EXCEPT !.explanation =
                                     IF Len(text) > 20 THEN text ELSE @,
                                 !.meta.keys = @ \cup {"raw_response"}]
                /\ parsed' = parsed
                /\ apc' = "returned"
           ELSE /\ parsed' = p.obj
                /\ result' = result
                /\ apc' = "validate"
    /\ trace' = Append(trace, "parse")
    /\ UNCHANGED <<question, num_variants, retrieveVars, filename_filter,
                   ask_chunks, hits_returned, gen_calls, raw_response>>

\* step 5, second half: coerce and map the parsed object
AskValidate ==
    /\ apc = "validate"
    /\ LET v == _validate_response(parsed)
       IN  IF v.raised
           THEN /\ result' = result
                /\ apc' = "raised"
           ELSE /\ result' = v.verdict
                /\ apc' = "backfill"
    /\ trace' = Append(trace, "validate")
    /\ UNCHANGED <<question, num_variants, retrieveVars, filename_filter,
                   ask_chunks, hits_returned, gen_calls, raw_response, parsed>>

\* steps 6 and 7: backfill the citations, attach _meta, return
AskBackfill ==
    /\ apc = "backfill"
    /\ result' =
          [result EXCEPT
              !.citations = _backfill_citations(result.citations, ask_chunks, question),
              !.meta = Meta({"question", "filename_filter", "model",
                             "chunks_retrieved", "query_variants", "llm_time_s",
                             "total_time_s"},
                            FALSE, "", Len(ask_chunks))]
    /\ apc' = "returned"
    /\ trace' = Append(trace, "backfill")
    /\ UNCHANGED <<question, num_variants, retrieveVars, filename_filter,
                   ask_chunks, hits_returned, gen_calls, raw_response, parsed>>

\* ------------------------------------------------------------------------
\* Coverage agent: _validate_response on its own
\* ------------------------------------------------------------------------
\* a field the object does not carry
Absent == [t |-> "absent", s |-> "", n |-> 0, items |-> <<>>, keys |-> <<>>]

\* v inside d nested {type, value} wrappers
RECURSIVE Wrap(_, _)
Wrap(d, v) ==
    IF d = 0 THEN v
    ELSE JDict(<<"type", "value">>, <<JStr("wrapped"), Wrap(d - 1, v)>>)

CoveredOptions ==
    {Absent, JStr("Yes"), JStr("nO"), JStr("maybe"), JNum(10)}
    \cup {Wrap(d, JStr("Yes")) : d \in 1..MaxWrapDepth}

ConfidenceOptions ==
    {Absent, JNum(50), JNum(8), JNum(0 - 3), JStr("not-a-number"), JStr("0.7"),
     JList(<<>>), JNull, JBig}
    \cup {Wrap(d, JNum(8)) : d \in 1..MaxWrapDepth}

ExplanationOptions ==
    {Absent, JStr("Real explanation."),
     JStr("Hospitalization is covered after thirty days."), JNull}

CitationsOptions ==
    {Absent,
     JList(<<JDict(<<"file", "page", "quote">>,
                   <<JStr("a.pdf"), Wrap(1, JNum(30)), JStr("As quoted.")>>),
             JStr("stray")>>)}

CaveatsOptions ==
    {Absent, JStr(" wait "), JStr(" "),
     JList(<<JStr(" wait "), JStr(""), JNull>>),
     JList(<<JDict(<<"id", "caveat">>, <<JNum(10), JStr("limit")>>), JStr(" "),
             JNum(50), Wrap(1, JStr("cap"))>>)}

NoteOptions ==
    {Absent, JStr("short"), JStr("An unrecognised note"),
     JStr("  padded unrecognised note  ")}

\* the dict with the given fields, in order, without the absent ones
Obj(ks, vs) ==
    LET idx == SelectSeq([j \in 1..Len(ks) |-> j], LAMBDA j : vs[j] # Absent)
    IN  JDict([j \in 1..Len(idx) |-> ks[idx[j]]], [j \in 1..Len(idx) |-> vs[idx[j]]])

\* the parsed objects _validate_response is applied to
ValidateInputs ==
    {Obj(<<"covered", "confidence", "explanation", "citations", "caveats", "note">>,
         <<cov, conf, expl, cits, cavs, note>>) :
        cov \in CoveredOptions, conf \in ConfidenceOptions,
        expl \in ExplanationOptions, cits \in CitationsOptions,
        cavs \in CaveatsOptions, note \in NoteOptions}

NotValidated == [raised |-> FALSE, verdict |-> NoVerdict]

\* the dict _validate_response returned, as a parsed object
ToJson(v) ==
    JDict(<<"covered", "confidence", "explanation", "citations", "caveats">>,
          <<JStr(v.covered), JNum(v.confidence), JStr(v.explanation),
            JList([j \in 1..Len(v.citations) |->
                     JDict(<<"file", "page", "section", "quote">>,
                           <<JStr(v.citations[j].file), JNum(10 * v.citations[j].page),
                             JStr(v.citations[j].section),
                             JStr(v.citations[j].quote)>>)]),
            JList([j \in 1..Len(v.caveats) |-> JStr(v.caveats[j])])>>)

InitValidate ==
    /\ vdata \in ValidateInputs
    /\ vresult = NotValidated
    /\ vagain = NotValidated
    /\ vpc = "start"

\* result = _validate_response(parsed)
Validate ==
    /\ vpc = "start"
    /\ vresult' = _validate_response(vdata)
    /\ vpc' = "once"
    /\ UNCHANGED <<vdata, vagain>>

\* _validate_response applied to the dict it returned
ValidateAgain ==
    /\ vpc = "once"
    /\ ~vresult.raised
    /\ vagain' = _validate_response(ToJson(vresult.verdict))
    /\ vpc' = "twice"
    /\ UNCHANGED <<vdata, vresult>>

\* ------------------------------------------------------------------------
\* Segmenter: section titles (detect_sections, _section_for_offset)
\* ------------------------------------------------------------------------
\* A page is the sequence of its lines (text.split("\n")); a line is its
\* length and, when is_section_header accepts it, its cleaned title ("" for
\* a line that is no header).
HeaderTitles == {"SCOPE", "EXCLUSIONS"}

Lines ==
    {[len |-> n, title |-> t] :
        n \in 0..MaxLineLen, t \in {""} \cup HeaderTitles} \
    {[len |-> 0, title |-> t] : t \in HeaderTitles}

\* len(page.text)
CharCount(page) ==
    SumRange([k \in 1..Len(page) |-> page[k].len + 1], 1, Len(page)) - 1

\* detect_sections: the headers in document order
RECURSIVE PageSections(_, _, _)
PageSections(page, pnum, k) ==
    IF k > Len(page) THEN <<>>
    ELSE (IF page[k].title # ""
          THEN <<[title |-> page[k].title, page_number |-> pnum, line_index |-> k - 1]>>
          ELSE <<>>) \o PageSections(page, pnum, k + 1)

RECURSIVE detect_sections(_, _)
detect_sections(pages, p) ==
    IF p > Len(pages) THEN <<>>
    ELSE PageSections(pages[p], p, 1) \o detect_sections(pages, p + 1)

\* _build_page_map: the start offset of every page
RECURSIVE _build_page_map(_, _, _)
_build_page_map(pages, p, offset) ==
    IF p > Len(pages) THEN <<>>
    ELSE <<[page_number |-> p, start |-> offset]>>
         \o _build_page_map(pages, p + 1, offset + CharCount(pages[p]) + 1)

\* the estimated offset of a header in the combined document
SectionOffset(sec, pages, page_map) ==
    LET lines == pages[sec.page_number]
        upto == Min(sec.line_index, Len(lines))
    IN  page_map[sec.page_number].start
        + SumRange([k \in 1..Len(lines) |-> lines[k].len + 1], 1, upto)

\* the scan of _section_for_offset over the headers from index k on
RECURSIVE ScanSections(_, _, _, _, _, _)
ScanSections(sections, pages, page_map, offset, k, current_title) ==
    IF k > Len(sections) THEN current_title
    ELSE IF SectionOffset(sections[k], pages, page_map) > offset THEN current_title
    ELSE ScanSections(sections, pages, page_map, offset, k + 1, sections[k].title)

\* _section_for_offset
_section_for_offset(sections, pages, page_map, offset) ==
    IF sections = <<>> THEN "Unknown"
    ELSE ScanSections(sections, pages, page_map, offset, 1, sections[1].title)

InitSection ==
    /\ spages \in SeqsBetween(SeqsBetween(Lines, 1, MaxLines), 1, MaxPages)
    /\ soffset \in 0..MaxOffset
    /\ stitle = ""
    /\ spc = "start"

\* section = _section_for_offset(sections, pages, page_map, char_start_approx)
SectionLookup ==
    /\ spc = "start"
    /\ stitle' = _section_for_offset(detect_sections(spages, 1), spages,
                                     _build_page_map(spages, 1, 0), soffset)
    /\ spc' = "done"
    /\ UNCHANGED <<spages, soffset>>

SectionIdle ==
    /\ spages = <<>>
    /\ soffset = 0
    /\ stitle = ""
    /\ spc = "done"

\* ------------------------------------------------------------------------
\* Segmenter: character offsets and pages of a chunk
\* ------------------------------------------------------------------------
\* The concatenated document as _split_sentences cuts it.  Sentence j has
\*   len      the length of the part, len(sentences[j])
\*   gap      the number of characters of the document between the end of
\*            part j and the start of part j + 1: the whitespace that the
\*            boundary pattern consumed, 0 for a boundary right after a
\*            newline that is the last character of part j
\*   newpage  TRUE when the part is the first text of its page
SentenceShapes == [len : 1..MaxSentChars, gap : 0..MaxGap, newpage : BOOLEAN]

\* the documents: the first sentence opens page 1, and the newline that
\* joins two pages is part of the gap or of the sentence before it
Documents(n) ==
    {d \in [1..n -> SentenceShapes] :
        /\ ~d[1].newpage
        /\ d[n].gap = 0
        /\ \A j \in 2..n :
              d[j].newpage => (d[j - 1].gap >= 1 \/ d[j - 1].len >= 2)}

\* position of the first character of sentence j in the concatenated text
TrueStart(d, j) == SumRange([m \in 1..Len(d) |-> d[m].len + d[m].gap], 1, j - 1)

\* page on which sentence j lies
PageOf(d, j) == 1 + Cardinality({m \in 2..j : d[m].newpage})

\* _build_page_map for pages whose text begins with their first sentence:
\* the offset of page p in the concatenated text
PageStart(d, p) ==
    IF p = 1 THEN 0
    ELSE TrueStart(d, CHOOSE j \in 2..Len(d) : d[j].newpage /\ PageOf(d, j) = p)

\* _page_for_offset: the last page that starts at or before the offset
_page_for_offset(d, offset) ==
    LET starting == {p \in 1..PageOf(d, Len(d)) : PageStart(d, p) <= offset}
    IN  CHOOSE p \in starting : \A q \in starting : q <= p

\* sum(len(sentences[j]) + 1 for j in range(start_sent_idx))
char_start_approx(d, start) ==
    SumRange([m \in 1..Len(d) |-> d[m].len + 1], 1, start - 1)

\* len(" ".join(chunk_sents)) for the sentences start..last
ChunkTextLen(d, start, last) ==
    SumRange([m \in 1..Len(d) |-> d[m].len], start, last) + (last - start)

\* char_start_approx + len(chunk_text)
char_end_approx(d, start, last) ==
    char_start_approx(d, start) + ChunkTextLen(d, start, last)

\* the offsets and pages stored in the Chunk made of sentences c.start..c.end-1
Span(d, c) ==
    [start |-> c.start,
     end |-> c.end,
     char_start |-> char_start_approx(d, c.start),
     char_end |-> char_end_approx(d, c.start, c.end - 1),
     page_number |-> _page_for_offset(d, char_start_approx(d, c.start)),
     page_end |-> _page_for_offset(d, char_end_approx(d, c.start, c.end - 1))]

InitOffset ==
    /\ \E n \in 1..MaxDocSents :
          /\ sent_tokens \in [1..n -> 1..MaxDocTok]
          /\ sent_chars \in Documents(n)
    /\ target_tokens \in 1..MaxDocSents
    /\ overlap_tokens \in 0..MaxDocTok
    /\ i = 1
    /\ chunks = <<>>
    /\ cpc = "loop"
    /\ spans = <<>>

\* one iteration of the outer loop, with the offsets and pages of the
\* chunk it appends
OffsetStep ==
    /\ ChunkStep
    /\ spans' = IF Len(chunks') > Len(chunks)
                THEN Append(spans, Span(sent_chars, chunks'[Len(chunks')]))
                ELSE spans
    /\ UNCHANGED sent_chars

OffsetReturn ==
    /\ ChunkReturn
    /\ UNCHANGED <<sent_chars, spans>>

OffsetIdle ==
    /\ sent_chars = <<>>
    /\ spans = <<>>

\* ------------------------------------------------------------------------
\* Vector store: EmbeddingStore.ingest_chunks
\* ------------------------------------------------------------------------
\* chunk ids that may be ingested
IngestIds == 1..MaxIngestIds

\* the chunk lists passed to ingest_chunks, given by their chunk ids
ChunkLists ==
    {l \in SeqsBetween(IngestIds, 0, MaxIngestLen) :
        \A a, b \in 1..Len(l) : a # b => l[a] # l[b]}

Summary(status, ingested, count) ==
    [status |-> status, chunks_ingested |-> ingested, collection_count |-> count]

NoSummary == Summary("none", 0, 0)

\* the collection holds any chunks when the store is opened
InitIngest ==
    /\ stored \in SUBSET IngestIds
    /\ ingest_list = <<>>
    /\ ingest_force = FALSE
    /\ summary = NoSummary
    /\ ingest_calls = 0

\* ingest_chunks(chunks, force): skipped when the collection holds at least
\* len(chunks) embeddings and force is off, otherwise every chunk is
\* upserted under its chunk_id
IngestChunks ==
    /\ ingest_calls < MaxIngestCalls
    /\ \E l \in ChunkLists, force \in BOOLEAN :
          LET existing == Cardinality(stored)
          IN  /\ ingest_list' = l
              /\ ingest_force' = force
              /\ IF existing >= Len(l) /\ ~force
                 THEN /\ stored' = stored
                      /\ summary' = Summary("skipped", 0, existing)
                 ELSE /\ stored' = stored \cup {l[j] : j \in 1..Len(l)}
                      /\ summary' = Summary("success", Len(l),
                                            Cardinality(stored \cup {l[j] : j \in 1..Len(l)}))
    /\ ingest_calls' = ingest_calls + 1

\* reset_collection: the collection is deleted and created again
ResetCollection ==
    /\ stored # {}
    /\ stored' = {}
    /\ UNCHANGED <<ingest_list, ingest_force, summary, ingest_calls>>

IngestIdle ==
    /\ stored = {}
    /\ ingest_list = <<>>
    /\ ingest_force = FALSE
    /\ summary = NoSummary
    /\ ingest_calls = 0

\* ------------------------------------------------------------------------
\* Downloader: deduplicate_filename
\* ------------------------------------------------------------------------
\* A filename base_n1_n2....pdf is the record of its base and of the numbers
\* that follow it, each written after an underscore; "Policy_1.pdf" is
\* FileName("Policy", <<1>>).
FileName(base, sfx) == [base |-> base, sfx |-> sfx]

\* the normalised names of the files of the folder
InputNames ==
    {FileName(b, s) : b \in {"Policy", "policy", "Other"},
                      s \in SeqsBetween(1..MaxInputSuffix, 0, 1)}

\* name.lower()
LowerName(name) ==
    [name EXCEPT !.base = IF @ = "Policy" THEN "policy"
                          ELSE IF @ = "Other" THEN "other" ELSE @]

\* f"{stem}_{n}{ext}" for stem, ext = os.path.splitext(name)
WithSuffix(name, n) == [name EXCEPT !.sfx = Append(@, n)]

\* seen_names = {} at the start of the filename plan
InitDedup ==
    /\ seen = <<>>
    /\ inputs = <<>>
    /\ returned = <<>>

\* deduplicate_filename(name, seen), called for the next file of the folder
deduplicate_filename ==
    /\ Len(returned) < MaxDedupCalls
    /\ \E name \in InputNames :
          LET key == LowerName(name)
              known == {seen[k].key : k \in 1..Len(seen)}
              at == CHOOSE k \in 1..Len(seen) : seen[k].key = key
          IN  /\ inputs' = Append(inputs, name)
              /\ IF key \in known
                 THEN /\ seen' = [seen EXCEPT ![at].count = @ + 1]
                      /\ returned' = Append(returned,
                                            WithSuffix(name, seen[at].count + 1))
                 ELSE /\ seen' = Append(seen, [key |-> key, count |-> 0])
                      /\ returned' = Append(returned, name)

DedupIdle ==
    /\ seen = <<>>
    /\ inputs = <<>>
    /\ returned = <<>>

\* ------------------------------------------------------------------------
\* Answer chain: AnswerChain._parse_response
\* ------------------------------------------------------------------------
\* A text of the answer chain is a sequence of pieces: the pieces "FENCE",
\* "JSONTAG", "NL", "OBJ" and "ARR" of the coverage agent, and sentences
\* without braces that are no JSON.  A string value is the text of its one
\* sentence; texts are shorter than the truncation limits of the code.
ChainSentences ==
    {"This is not JSON at all", "The surgery is covered.", "It is excluded"}

ChainPieces == {"FENCE", "JSONTAG", "NL", "OBJ", "ARR"} \cup ChainSentences

Text(s) == IF s = "" THEN <<>> ELSE <<s>>

\* the words of the inference lists of step 7 that occur in s.lower()
KeywordsIn(s) ==
    CASE s = "The surgery is covered." -> {"covered"}
      [] s = "It is excluded" -> {"excluded"}
      [] s = "Covered after a waiting period." -> {"covered", "waiting"}
      [] s = "Not covered." -> {"covered", "not covered"}
      [] OTHER -> {}

KeywordsOf(txt) == UNION {KeywordsIn(txt[k]) : k \in 1..Len(txt)}

\* a value is true in a condition
Truthy(v) ==
    CASE v.t = "str" -> v.s # ""
      [] v.t = "num" -> v.n # 0
      [] v.t = "bigint" -> TRUE
      [] v.t = "list" -> v.items # <<>>
      [] v.t = "dict" -> v.keys # <<>>
      [] OTHER -> FALSE

\* strategy 1: the group of re.search(r"```(?:json)?\s*\n?(.*?)\n?```"),
\* stripped; the text itself when the pattern does not match
FenceBody(txt) ==
    LET f1 == FirstIndex(txt, "FENCE")
        later == {k \in (f1 + 1)..Len(txt) : txt[k] = "FENCE"}
        f2 == CHOOSE k \in later : \A m \in later : k <= m
        inner == SubSeq(txt, f1 + 1, f2 - 1)
        body == IF inner # <<>> /\ inner[1] = "JSONTAG" THEN Tail(inner) ELSE inner
    IN  IF f1 = 0 \/ later = {} THEN txt ELSE Strip(body)

\* strategy 2: cut before the first and after the last brace
CutToBraces(txt) ==
    LET first == FirstIndex(txt, "OBJ")
        c1 == IF first > 1 THEN SubSeq(txt, first, Len(txt)) ELSE txt
        last == LastIndex(c1, "OBJ")
        c2 == IF last # 0 /\ last < Len(c1) THEN SubSeq(c1, 1, last) ELSE c1
    IN  Strip(c2)

\* the text handed to json.loads
Cleaned(txt) == CutToBraces(FenceBody(Strip(txt)))

\* json.loads: the object, the array, or a JSONDecodeError
JsonLoads(txt, payload) ==
    IF txt = <<"OBJ">> THEN [failed |-> FALSE, value |-> payload]
    ELSE IF txt = <<"ARR">> THEN [failed |-> FALSE, value |-> JList(<<JNum(10), JNum(20)>>)]
    ELSE [failed |-> TRUE, value |-> JNull]

\* AnswerChain._flatten_value
RECURSIVE AnswerChain_flatten_value(_)
AnswerChain_flatten_value(v) ==
    IF v.t = "dict"
    THEN IF HasKey(v, "value")
         THEN AnswerChain_flatten_value(Get(v, "value", JNull))
         ELSE IF HasKey(v, "type") /\ Len(v.keys) = 2
         THEN AnswerChain_flatten_value(
                  v.items[CHOOSE k \in 1..2 : v.keys[k] # "type"])
         ELSE v
    ELSE IF v.t = "list"
    THEN JList([k \in 1..Len(v.items) |-> AnswerChain_flatten_value(v.items[k])])
    ELSE v

\* ", ".join(strs)
RECURSIVE JoinComma(_)
JoinComma(strs) ==
    IF strs = <<>> THEN ""
    ELSE IF Len(strs) = 1 THEN strs[1]
    ELSE strs[1] \o ", " \o JoinComma(Tail(strs))

\* step 2: the answer as a stripped string
AnswerVal(v) ==
    CASE v.t = "absent" -> ""
      [] v.t = "list" -> StripStr(JoinComma([k \in 1..Len(v.items) |-> PyStrOf(v.items[k])]))
      [] OTHER -> StripStr(PyStrOf(v))

\* step 3: the confidence as a float, in tenths; float() of an integer
\* beyond the range of a float raises OverflowError
ConfidenceVal(v) ==
    CASE v.t = "absent" -> [raised |-> FALSE, n |-> 0]
      [] v.t = "str" -> [raised |-> FALSE,
                         n |-> IF ParseFloat(v.s).ok THEN ParseFloat(v.s).n ELSE 5]
      [] v.t = "num" -> [raised |-> FALSE, n |-> v.n]
      [] v.t = "bigint" -> [raised |-> TRUE, n |-> 0]
      [] OTHER -> [raised |-> FALSE, n |-> 5]

\* str(v or "")
StrOrEmpty(v) == IF Truthy(v) THEN PyStrOf(v) ELSE ""

ChainCitation(f, p, sec, q) ==
    [filename |-> f, page |-> p, section |-> sec, quote |-> q]

\* step 4: one entry of the citations list, as a list of at most one
\* cleaned citation
CleanCitation(c0) ==
    LET c == AnswerChain_flatten_value(c0)
    IN  CASE c.t = "str" -> <<ChainCitation("", JStr(""), "", c.s)>>
          [] c.t = "dict" ->
                <<ChainCitation(StrOrEmpty(Get(c, "filename", JStr(""))),
                                Get(c, "page", JStr("")),
                                StrOrEmpty(Get(c, "section", JStr(""))),
                                IF Truthy(Get(c, "quote", JStr("")))
                                THEN PyStrOf(Get(c, "quote", JStr("")))
                                ELSE StrOrEmpty(Get(c, "value", JStr(""))))>>
          [] OTHER -> <<>>

RECURSIVE CleanCitations(_)
CleanCitations(items) ==
    IF items = <<>> THEN <<>>
    ELSE CleanCitation(items[1]) \o CleanCitations(Tail(items))

\* step 5: one entry of the caveats list, as a list of at most one string
CleanCaveat(c0) ==
    LET c == AnswerChain_flatten_value(c0)
        text == IF Truthy(Get(c, "description", JStr("")))
                THEN Get(c, "description", JStr(""))
                ELSE IF Truthy(Get(c, "value", JStr("")))
                THEN Get(c, "value", JStr(""))
                ELSE Get(c, "desc", JStr(""))
    IN  CASE c.t = "str" -> Text(StripStr(c.s))
          [] c.t = "dict" -> IF Truthy(text) THEN <<StripStr(PyStrOf(text))>> ELSE <<>>
          [] c.t = "null" -> <<>>
          [] OTHER -> Text(StripStr(PyStrOf(c)))

RECURSIVE CleanCaveats(_)
CleanCaveats(items) ==
    IF items = <<>> THEN <<>>
    ELSE CleanCaveat(items[1]) \o CleanCaveats(Tail(items))

CaveatsVal(v) ==
    CASE v.t = "str" -> IF v.s = "" THEN <<>> ELSE CleanCaveats(<<v>>)
      [] v.t = "list" -> CleanCaveats(v.items)
      [] OTHER -> <<>>

\* step 6: the text collected from one value under a non-standard key
ExtraPart(item) ==
    LET desc == IF Truthy(Get(item, "description", JStr("")))
                THEN Get(item, "description", JStr(""))
                ELSE Get(item, "desc", JStr(""))
    IN  CASE item.t = "dict" -> IF Truthy(desc) THEN <<PyStrOf(desc)>> ELSE <<>>
          [] item.t = "str" -> <<item.s>>
          [] OTHER -> <<>>

RECURSIVE ExtraParts(_)
ExtraParts(vals) ==
    IF vals = <<>> THEN <<>>
    ELSE LET v == vals[1]
             here == CASE v.t = "str" -> Text(v.s)
                       [] v.t = "list" ->
                             IF v.items = <<>> THEN <<>>
                             ELSE ExtraPart(v.items[1])
                                  \o ExtraParts(<<JList(Tail(v.items))>>)
                       [] OTHER -> <<>>
         IN  here \o ExtraParts(Tail(vals))

StandardKeys == {"answer", "explanation", "confidence", "citations", "caveats"}

\* the explanation as a text; a value that is no string is shown by its str()
ExplanationVal(v) ==
    CASE v.t = "str" -> Text(v.s)
      [] v.t = "absent" -> <<>>
      [] OTHER -> IF Truthy(v) THEN <<PyStrOf(v)>> ELSE <<>>

\* step 7: the answer inferred from the explanation when the model gave none
InferAnswer(combined) ==
    LET kw == KeywordsOf(combined)
    IN  IF kw \cap {"covered", "eligible", "payable", "included"} # {}
        THEN IF kw \cap {"condition", "waiting", "sub-limit", "co-pay", "limit"} # {}
             THEN "Partial" ELSE "Yes"
        ELSE IF kw \cap {"excluded", "not covered", "not eligible", "not mentioned"} # {}
        THEN "No"
        ELSE "Partial"

ChainData(raised, answer, explanation, confidence, citations, badc, caveats) ==
    [raised |-> raised, answer |-> answer, explanation |-> explanation,
     confidence |-> confidence, citations |-> citations,
     bad_citations |-> badc, caveats |-> caveats]

NoData == ChainData(FALSE, "", <<>>, 0, <<>>, FALSE, <<>>)

\* steps 2 to 7 of _normalise_llm_output and the setdefault loop of
\* _parse_response, on the flattened values of the standard keys (Absent for
\* a missing key) and the text parts of the other keys
Normalise(answer, confidence, explanation, citations, caveats, extra_parts) ==
    LET answer_val == AnswerVal(answer)
        conf == ConfidenceVal(confidence)
        explanation_val == IF extra_parts # <<>> /\ explanation = <<>>
                           THEN Take(extra_parts, 5) ELSE explanation
        valid == LowerStr(answer_val) \in {"yes", "no", "partial"}
        combined == IF explanation_val # <<>> THEN explanation_val ELSE Text(answer_val)
    IN  ChainData(conf.raised,
                  IF valid THEN Capitalize(answer_val) ELSE InferAnswer(combined),
                  explanation_val,
                  IF ~valid /\ conf.n = 0 THEN 5 ELSE conf.n,
                  IF citations.t = "list" THEN CleanCitations(citations.items) ELSE <<>>,
                  citations.t \notin {"list", "absent"},
                  CaveatsVal(caveats))

\* _normalise_llm_output on a parsed object: step 1 flattens every value
_normalise_llm_output(data) ==
    LET flat == JDict(data.keys,
                      [k \in 1..Len(data.items) |-> AnswerChain_flatten_value(data.items[k])])
        others == SelectSeq([k \in 1..Len(flat.keys) |-> k],
                            LAMBDA k : flat.keys[k] \notin StandardKeys)
    IN  Normalise(Get(flat, "answer", Absent),
                  Get(flat, "confidence", Absent),
                  ExplanationVal(Get(flat, "explanation", Absent)),
                  Get(flat, "citations", Absent),
                  Get(flat, "caveats", JList(<<>>)),
                  ExtraParts([k \in 1..Len(others) |-> flat.items[others[k]]]))

\* _parse_response: the normalised data; data.keys() raises AttributeError
\* when the text is JSON but no object
_parse_response(txt, payload) ==
    LET cleaned == Cleaned(txt)
        loaded == JsonLoads(cleaned, payload)
    IN  IF loaded.failed
        THEN Normalise(JStr("Unknown"), JNum(0), cleaned, JList(<<>>),
                       JList(<<JStr("LLM response was not valid JSON")>>), <<>>)
        ELSE IF loaded.value.t # "dict"
        THEN [NoData EXCEPT !.raised = TRUE]
        ELSE _normalise_llm_output(loaded.value)

\* ------------------------------------------------------------------------
\* Answer chain: AnswerChain._backfill_citations
\* ------------------------------------------------------------------------
\* set(s_clean.lower().split()) for the sentences of the chunks
SplitWords(sentence) ==
    CASE sentence = "The policy covers hospitalization." ->
            {"the", "policy", "covers", "hospitalization."}
      [] sentence = "Knee replacement is included under surgical benefits." ->
            {"knee", "replacement", "is", "included", "under", "surgical", "benefits."}
      [] sentence = "Dental is excluded." -> {"dental", "is", "excluded."}
      [] sentence = "Hip surgery needs approval in advance." ->
            {"hip", "surgery", "needs", "approval", "in", "advance."}
      [] sentence = "Knee braces are covered." -> {"knee", "braces", "are", "covered."}
      [] OTHER -> {}

\* _best_sentences(text, n=3): the n sentences of at least 10 characters
\* with the largest overlap, in their order in the text, joined by spaces;
\* the first n sentences when there is none
_best_sentences(sentences, q) ==
    LET idx == [j \in 1..Len(sentences) |-> j]
        ov(j) == Cardinality(QuestionWords(q) \cap SplitWords(StripStr(sentences[j])))
        scored == {j \in 1..Len(sentences) : Len(StripStr(sentences[j])) >= 10}
        before(j) == {k \in scored : ov(k) > ov(j) \/ (ov(k) = ov(j) /\ k < j)}
        top == SelectSeq(idx, LAMBDA j : j \in scored /\ Cardinality(before(j)) < 3)
        ordered == IF top # <<>> THEN [k \in 1..Len(top) |-> sentences[top[k]]]
                   ELSE [k \in 1..Min(3, Len(sentences)) |-> StripStr(sentences[k])]
    IN  JoinSpace(ordered)

\* the quote given to a citation whose quote is missing or shorter than 5
\* characters: exact (filename, page) match, filename match, first chunk
ChainFillQuote(cit, cs, q) ==
    LET exact == FirstChunk(SelectSeq(cs, LAMBDA c :
                    /\ ChunkMeta(c.chunk_id).filename = cit.filename
                    /\ NatStr(ChunkMeta(c.chunk_id).page_number) = PyStrOf(cit.page)))
        loose == FirstChunk(SelectSeq(cs, LAMBDA c :
                    ChunkMeta(c.chunk_id).filename = cit.filename))
        q1 == IF exact # <<>>
              THEN _best_sentences(ChunkMeta(exact[1].chunk_id).sentences, q)
              ELSE IF loose # <<>>
              THEN _best_sentences(ChunkMeta(loose[1].chunk_id).sentences, q)
              ELSE cit.quote
        q2 == IF q1 = "" /\ cs # <<>>
              THEN _best_sentences(ChunkMeta(cs[1].chunk_id).sentences, q)
              ELSE q1
    IN  IF cit.quote = "" \/ Len(cit.quote) < 5
        THEN [cit EXCEPT !.quote = q2]
        ELSE cit

AnswerChain_backfill_citations(citations, cs, q) ==
    LET filled == [j \in 1..Len(citations) |-> ChainFillQuote(citations[j], cs, q)]
        top == Take(cs, 3)
        made == [j \in 1..Len(top) |->
                    ChainCitation(ChunkMeta(top[j].chunk_id).filename,
                                  JNum(10 * ChunkMeta(top[j].chunk_id).page_number),
                                  ChunkMeta(top[j].chunk_id).section_title,
                                  _best_sentences(ChunkMeta(top[j].chunk_id).sentences, q))]
        all == IF citations = <<>> THEN made ELSE filled
    IN  SelectSeq(all, LAMBDA c : c.quote # "")

\* ------------------------------------------------------------------------
\* Answer chain: AnswerChain.answer
\* ------------------------------------------------------------------------
\* the sample objects the generation service answers with
ChainObjects ==
    {JDict(<<"answer", "explanation", "confidence", "citations", "caveats">>,
           <<JStr("Yes"), JStr("The surgery is covered."), JNum(9),
             JList(<<JDict(<<"filename", "page", "section", "quote">>,
                           <<JStr("a.pdf"), JNum(10), JStr("S1"), JStr("")>>)>>),
             JList(<<JStr("30-day wait")>>)>>),
     JDict(<<"answer", "confidence">>, <<JStr("Yes"), JNum(50)>>),
     JDict(<<"answer", "confidence", "citations">>,
           <<JDict(<<"type", "value">>, <<JStr("string"), JStr("no")>>),
             JNum(0 - 20),
             JList(<<JDict(<<"filename", "page", "quote">>,
                           <<JStr("zzz.pdf"), JStr("x"), JStr("")>>)>>)>>),
     JDict(<<"answer", "confidence", "note">>,
           <<JStr("Unknown"), JStr("5"), JStr("It is excluded")>>),
     JDict(<<"answer", "explanation", "confidence">>,
           <<JStr("maybe"), JStr("Covered after a waiting period."), JNum(0)>>),
     JDict(<<"answer", "confidence", "citations">>,
           <<JStr("No"), JNull, JStr("see the policy")>>),
     JDict(<<"answer", "confidence">>, <<JStr("PARTIAL"), JBig>>),
     JDict(<<>>, <<>>)}

\* the texts of the generation service: at most one object
ChainTexts ==
    {t \in SeqsBetween(ChainPieces, 0, MaxChainLen) :
        /\ Strip(t) = t
        /\ Cardinality({k \in 1..Len(t) : t[k] = "OBJ"}) <= 1}

\* what the generation call may do: fail, or return a text
ChainOutcomes ==
    {Answer(k, <<>>, JNull) : k \in ServiceFailures}
    \cup {Answer("ok", t, JNull) :
            t \in {u \in ChainTexts : \A k \in 1..Len(u) : u[k] # "OBJ"}}
    \cup {Answer("ok", t, o) :
            t \in {u \in ChainTexts : \E k \in 1..Len(u) : u[k] = "OBJ"},
            o \in ChainObjects}

ChainResult(answer, explanation, confidence, citations, caveats, used) ==
    [answer |-> answer, explanation |-> explanation, confidence |-> confidence,
     citations |-> citations, caveats |-> caveats, chunks_used |-> used]

NoResult == ChainResult("", <<>>, 0, <<>>, <<>>, 0)

\* _empty_answer
_empty_answer(reason) == ChainResult("Unknown", <<reason>>, 0, <<>>, <<reason>>, 0)

InitChain ==
    /\ question = <<>>
    /\ num_variants = NUM_QUERY_VARIANTS
    /\ collection \in {{}, ChunkIds, {0}}
    /\ final_top_k = 0
    /\ variants = <<>>
    /\ all_queries = <<>>
    /\ per_query_hits = <<>>
    /\ all_hits = <<>>
    /\ retrieval = NoRetrieval
    /\ rpc = "done"
    /\ chain_chunks = <<>>
    /\ chain_raw = NoAnswer
    /\ chain_data = NoData
    /\ chain_result = NoResult
    /\ chpc = "start"

\* step 1 of answer: retrieve returns distinct chunks of the collection,
\* best score first, at most final_top_k of them; without chunks the empty
\* answer is returned
ChainRetrieve ==
    /\ chpc = "start"
    /\ \E q \in Questions : question' = q
    /\ \E cs \in StoreAnswers(collection, MaxFinalTopK) :
          /\ chain_chunks' = cs
          /\ IF cs = <<>>
             THEN /\ chain_result' = _empty_answer("No relevant policy excerpts found.")
                  /\ chpc' = "returned"
             ELSE /\ chain_result' = chain_result
                  /\ chpc' = "call"
    /\ UNCHANGED <<num_variants, retrieveVars, chain_raw, chain_data>>

\* steps 2 and 3: the generation call; every exception gives the empty answer
ChainCall ==
    /\ chpc = "call"
    /\ \E outcome \in ChainOutcomes :
          /\ chain_raw' = outcome
          /\ IF outcome.kind # "ok"
             THEN /\ chain_result' = _empty_answer("LLM call failed")
                  /\ chpc' = "returned"
             ELSE /\ chain_result' = chain_result
                  /\ chpc' = "parse"
    /\ UNCHANGED <<questionVars, retrieveVars, chain_chunks, chain_data>>

\* step 4: _parse_response, whose exceptions leave answer
ChainParse ==
    /\ chpc = "parse"
    /\ chain_data' = _parse_response(chain_raw.text, chain_raw.payload)
    /\ chpc' = IF _parse_response(chain_raw.text, chain_raw.payload).raised
               THEN "raised" ELSE "backfill"
    /\ UNCHANGED <<questionVars, retrieveVars, chain_chunks, chain_raw, chain_result>>

\* steps 5 and 6: _meta and the backfill, which raises on a citations value
\* that is no list
ChainBackfill ==
    /\ chpc = "backfill"
    /\ IF chain_data.bad_citations
       THEN /\ chpc' = "raised"
            /\ chain_result' = chain_result
       ELSE /\ chpc' = "returned"
            /\ chain_result' =
                  ChainResult(chain_data.answer, chain_data.explanation,
                              chain_data.confidence,
                              AnswerChain_backfill_citations(chain_data.citations,
                                                             chain_chunks, question),
                              chain_data.caveats, Len(chain_chunks))
    /\ UNCHANGED <<questionVars, retrieveVars, chain_chunks, chain_raw, chain_data>>

ChainIdle ==
    /\ chain_chunks = <<>>
    /\ chain_raw = NoAnswer
    /\ chain_data = NoData
    /\ chain_result = NoResult
    /\ chpc = "returned"

\* ------------------------------------------------------------------------
\* Specifications
\* ------------------------------------------------------------------------
ChunkIdle ==
    /\ sent_tokens = <<>>
    /\ target_tokens = 1
    /\ overlap_tokens = 0
    /\ i = 1
    /\ chunks = <<>>
    /\ cpc = "done"

QuestionIdle ==
    /\ question = <<>>
    /\ num_variants = 0

RetrieveIdle ==
    /\ collection = {}
    /\ final_top_k = 0
    /\ variants = <<>>
    /\ all_queries = <<>>
    /\ per_query_hits = <<>>
    /\ all_hits = <<>>
    /\ retrieval = NoRetrieval
    /\ rpc = "done"

ExpandIdle == InitExpand

AskIdle ==
    /\ filename_filter = ""
    /\ ask_chunks = <<>>
    /\ hits_returned = 0
    /\ gen_calls = 0
    /\ raw_response = NoAnswer
    /\ parsed = JNull
    /\ result = NoVerdict
    /\ trace = <<>>
    /\ apc = "returned"

ValidateIdle ==
    /\ vdata = JNull
    /\ vresult = NotValidated
    /\ vagain = NotValidated
    /\ vpc = "twice"

\* the segmenter on its own
NextChunk ==
    \/ ChunkStep /\ UNCHANGED <<questionVars, expandVars, retrieveVars, askVars, validateVars, sectionVars,
                 offsetVars,
                 ingestVars,
                 dedupVars,
                 chainVars>>
    \/ ChunkReturn /\ UNCHANGED <<questionVars, expandVars, retrieveVars, askVars, validateVars, sectionVars,
                 offsetVars,
                 ingestVars,
                 dedupVars,
                 chainVars>>

InitChunkOnly == InitChunk /\ QuestionIdle /\ ExpandIdle /\ RetrieveIdle /\ AskIdle /\ ValidateIdle /\ SectionIdle
    /\ OffsetIdle
    /\ IngestIdle
    /\ DedupIdle
    /\ ChainIdle

SpecChunk == InitChunkOnly /\ [][NextChunk]_vars

SpecChunkFair == SpecChunk /\ WF_vars(NextChunk)

\* expand_query on its own
NextExpand ==
    ExpandQuery /\ UNCHANGED <<chunkVars, questionVars, retrieveVars, askVars, validateVars, sectionVars,
                 offsetVars,
                 ingestVars,
                 dedupVars,
                 chainVars>>

InitExpandOnly == ChunkIdle /\ InitQuestion /\ InitExpand /\ RetrieveIdle /\ AskIdle /\ ValidateIdle /\ SectionIdle
    /\ OffsetIdle
    /\ IngestIdle
    /\ DedupIdle
    /\ ChainIdle

SpecExpand == InitExpandOnly /\ [][NextExpand]_vars

\* retrieve
NextRetrieve ==
    \/ RetrieveExpand /\ UNCHANGED <<chunkVars, expandVars, askVars, validateVars, sectionVars,
                 offsetVars,
                 ingestVars,
                 dedupVars,
                 chainVars>>
    \/ RetrieveQuery /\ UNCHANGED <<chunkVars, questionVars, expandVars, askVars, validateVars, sectionVars,
                 offsetVars,
                 ingestVars,
                 dedupVars,
                 chainVars>>
    \/ RetrieveReturn /\ UNCHANGED <<chunkVars, questionVars, expandVars, askVars, validateVars, sectionVars,
                 offsetVars,
                 ingestVars,
                 dedupVars,
                 chainVars>>

InitRetrieveOnly == ChunkIdle /\ QuestionIdle /\ ExpandIdle /\ InitRetrieve /\ AskIdle /\ ValidateIdle /\ SectionIdle
    /\ OffsetIdle
    /\ IngestIdle
    /\ DedupIdle
    /\ ChainIdle

SpecRetrieve == InitRetrieveOnly /\ [][NextRetrieve]_vars

\* ask, with the retrieve call it makes
NextAsk ==
    \/ AskExpand /\ UNCHANGED <<chunkVars, expandVars, validateVars, sectionVars,
                 offsetVars,
                 ingestVars,
                 dedupVars,
                 chainVars>>
    \/ AskRetrieve /\ UNCHANGED <<chunkVars, expandVars, validateVars, sectionVars,
                 offsetVars,
                 ingestVars,
                 dedupVars,
                 chainVars>>
    \/ AskFilter /\ UNCHANGED <<chunkVars, expandVars, validateVars, sectionVars,
                 offsetVars,
                 ingestVars,
                 dedupVars,
                 chainVars>>
    \/ AskCall /\ UNCHANGED <<chunkVars, expandVars, validateVars, sectionVars,
                 offsetVars,
                 ingestVars,
                 dedupVars,
                 chainVars>>
    \/ AskParse /\ UNCHANGED <<chunkVars, expandVars, validateVars, sectionVars,
                 offsetVars,
                 ingestVars,
                 dedupVars,
                 chainVars>>
    \/ AskValidate /\ UNCHANGED <<chunkVars, expandVars, validateVars, sectionVars,
                 offsetVars,
                 ingestVars,
                 dedupVars,
                 chainVars>>
    \/ AskBackfill /\ UNCHANGED <<chunkVars, expandVars, validateVars, sectionVars,
                 offsetVars,
                 ingestVars,
                 dedupVars,
                 chainVars>>

InitAskOnly == ChunkIdle /\ ExpandIdle /\ InitAsk /\ ValidateIdle /\ SectionIdle
    /\ OffsetIdle
    /\ IngestIdle
    /\ DedupIdle
    /\ ChainIdle

SpecAsk == InitAskOnly /\ [][NextAsk]_vars

\* _validate_response on its own
NextValidate ==
    \/ Validate /\ UNCHANGED <<chunkVars, questionVars, expandVars, retrieveVars, askVars,
                             sectionVars,
                 offsetVars,
                 ingestVars,
                 dedupVars,
                 chainVars>>
    \/ ValidateAgain /\ UNCHANGED <<chunkVars, questionVars, expandVars, retrieveVars,
                                  askVars, sectionVars,
                 offsetVars,
                 ingestVars,
                 dedupVars,
                 chainVars>>

InitValidateOnly ==
    ChunkIdle /\ QuestionIdle /\ ExpandIdle /\ RetrieveIdle /\ AskIdle /\ InitValidate
    /\ SectionIdle
    /\ OffsetIdle
    /\ IngestIdle
    /\ DedupIdle
    /\ ChainIdle

SpecValidate == InitValidateOnly /\ [][NextValidate]_vars

\* the section lookup on its own
NextSection ==
    SectionLookup /\ UNCHANGED <<chunkVars, questionVars, expandVars, retrieveVars,
                                 askVars, validateVars,
                 offsetVars,
                 ingestVars,
                 dedupVars,
                 chainVars>>

InitSectionOnly ==
    ChunkIdle /\ QuestionIdle /\ ExpandIdle /\ RetrieveIdle /\ AskIdle /\ ValidateIdle
    /\ InitSection
    /\ OffsetIdle
    /\ IngestIdle
    /\ DedupIdle
    /\ ChainIdle

SpecSection == InitSectionOnly /\ [][NextSection]_vars

\* the segmenter with the offsets and pages of its chunks
NextOffset ==
    \/ OffsetStep /\ UNCHANGED <<questionVars, expandVars, retrieveVars, askVars,
                                validateVars, sectionVars,
                 ingestVars,
                 dedupVars,
                 chainVars>>
    \/ OffsetReturn /\ UNCHANGED <<questionVars, expandVars, retrieveVars, askVars,
                                  validateVars, sectionVars,
                 ingestVars,
                 dedupVars,
                 chainVars>>

InitOffsetOnly ==
    InitOffset /\ QuestionIdle /\ ExpandIdle /\ RetrieveIdle /\ AskIdle /\ ValidateIdle
    /\ SectionIdle
    /\ IngestIdle
    /\ DedupIdle
    /\ ChainIdle

SpecOffset == InitOffsetOnly /\ [][NextOffset]_vars

\* the vector store under ingestion
NextIngest ==
    \/ IngestChunks /\ UNCHANGED <<chunkVars, questionVars, expandVars, retrieveVars,
                                  askVars, validateVars, sectionVars, offsetVars,
                 dedupVars,
                 chainVars>>
    \/ ResetCollection /\ UNCHANGED <<chunkVars, questionVars, expandVars, retrieveVars,
                                     askVars, validateVars, sectionVars, offsetVars,
                 dedupVars,
                 chainVars>>

InitIngestOnly ==
    ChunkIdle /\ QuestionIdle /\ ExpandIdle /\ RetrieveIdle /\ AskIdle /\ ValidateIdle
    /\ SectionIdle /\ OffsetIdle /\ InitIngest
    /\ DedupIdle
    /\ ChainIdle

SpecIngest == InitIngestOnly /\ [][NextIngest]_vars

\* the filename plan of download_all_pdfs
NextDedup ==
    deduplicate_filename /\ UNCHANGED <<chunkVars, questionVars, expandVars, retrieveVars,
                                        askVars, validateVars, sectionVars, offsetVars,
                                        ingestVars,
                 chainVars>>

InitDedupOnly ==
    ChunkIdle /\ QuestionIdle /\ ExpandIdle /\ RetrieveIdle /\ AskIdle /\ ValidateIdle
    /\ SectionIdle /\ OffsetIdle /\ IngestIdle /\ InitDedup
    /\ ChainIdle

SpecDedup == InitDedupOnly /\ [][NextDedup]_vars

\* the answer chain
NextChain ==
    \/ ChainRetrieve /\ UNCHANGED <<chunkVars, expandVars, askVars, validateVars,
                                   sectionVars, offsetVars, ingestVars, dedupVars>>
    \/ ChainCall /\ UNCHANGED <<chunkVars, expandVars, askVars, validateVars,
                               sectionVars, offsetVars, ingestVars, dedupVars>>
    \/ ChainParse /\ UNCHANGED <<chunkVars, expandVars, askVars, validateVars,
                                sectionVars, offsetVars, ingestVars, dedupVars>>
    \/ ChainBackfill /\ UNCHANGED <<chunkVars, expandVars, askVars, validateVars,
                                   sectionVars, offsetVars, ingestVars, dedupVars>>

InitChainOnly ==
    ChunkIdle /\ ExpandIdle /\ AskIdle /\ ValidateIdle /\ SectionIdle /\ OffsetIdle
    /\ IngestIdle /\ DedupIdle /\ InitChain

SpecChain == InitChainOnly /\ [][NextChain]_vars

\* ------------------------------------------------------------------------
\* Segmenter properties
\* ------------------------------------------------------------------------

\* number of sentences of chunk c
NumSents(c) == c.end - c.start

\* C1: every chunk's token_count is at most target_tokens unless the chunk
\* is exactly one sentence whose own token count exceeds target_tokens.
C1_TokenBudget ==
    \A k \in 1..Len(chunks) :
        LET c == chunks[k]
        IN  /\ c.token_count = SumRange(sent_tokens, c.start, c.end - 1)
            /\ \/ c.token_count <= target_tokens
               \/ NumSents(c) = 1 /\ sent_tokens[c.start] > target_tokens

\* a chunk that is a single over-budget sentence has been emitted, and so
\* has a multi-sentence chunk within the budget
C1_Witness ==
    /\ cpc = "done"
    /\ \E k \in 1..Len(chunks) :
          NumSents(chunks[k]) = 1 /\ chunks[k].token_count > target_tokens
    /\ \E k \in 1..Len(chunks) :
          NumSents(chunks[k]) >= 2 /\ chunks[k].token_count <= target_tokens

\* C2: for a non-blank document every sentence lies in at least one returned
\* chunk, also a sentence that alone exceeds the budget, and consecutive
\* chunks leave no sentence index between them.
C2_NoSentenceLost ==
    /\ \A k \in 1..Len(chunks) - 1 : chunks[k + 1].start <= chunks[k].end
    /\ Len(chunks) >= 1 => chunks[1].start = 1
    /\ (cpc = "done" /\ Len(sent_tokens) >= 1) =>
          \A s \in 1..Len(sent_tokens) :
              \E k \in 1..Len(chunks) :
                  chunks[k].start <= s /\ s < chunks[k].end

\* a finished document of several chunks that holds an over-budget sentence
C2_Witness ==
    /\ cpc = "done"
    /\ Len(chunks) >= 3
    /\ \E s \in 1..Len(sent_tokens) : sent_tokens[s] > target_tokens

\* C3: chunk_document terminates, and every iteration leaves the cursor
\* strictly after the start sentence of the chunk it closed, so chunk start
\* indices strictly increase.
C3_Progress ==
    /\ [][cpc = "loop" /\ cpc' = "loop" =>
             /\ i' > i
             /\ chunks'[Len(chunks')].start = i
             /\ \A k \in 1..Len(chunks) : chunks[k].start < i]_vars
    /\ <>(cpc = "done")

\* the rewind reached back over the whole closed chunk and was clamped to
\* one sentence of forward progress
C3_Witness ==
    /\ cpc = "loop"
    /\ Len(chunks) >= 1
    /\ LET c == chunks[Len(chunks)]
       IN  /\ NumSents(c) >= 2
           /\ i = c.start + 1
           /\ SumRange(sent_tokens, c.start, c.end - 1) <= overlap_tokens

\* the sentences shared by chunk k and chunk k+1
OverlapTokens(k) ==
    SumRange(sent_tokens, chunks[k + 1].start, chunks[k].end - 1)

OverlapCount(k) == chunks[k].end - chunks[k + 1].start

\* C4 as stated: for every chunk but the last two, when sentences remain
\* after it, the overlap with the next chunk is at most overlap_tokens and
\* is never empty.
C4_Original ==
    \A k \in 1..Len(chunks) - 2 :
        chunks[k].end <= Len(sent_tokens) =>
            /\ OverlapTokens(k) <= overlap_tokens
            /\ OverlapCount(k) >= 1

\* C4 amended: the overlap is a tail of chunk k that leaves out its first
\* sentence; it is the shortest tail that reaches overlap_tokens (so without
\* its earliest sentence it stays below overlap_tokens); it is empty exactly
\* when chunk k is a single sentence or overlap_tokens is 0.
C4_Overlap ==
    \A k \in 1..Len(chunks) - 1 :
        /\ chunks[k + 1].start > chunks[k].start
        /\ chunks[k + 1].start <= chunks[k].end
        /\ chunks[k + 1].end >= chunks[k].end
        /\ OverlapCount(k) >= 1 <=>
              (NumSents(chunks[k]) >= 2 /\ overlap_tokens > 0)
        /\ OverlapCount(k) >= 1 =>
              SumRange(sent_tokens, chunks[k + 1].start + 1, chunks[k].end - 1)
                  < overlap_tokens

\* an overlap that overshoots the overlap budget, and an empty overlap
C4_Witness ==
    /\ \E k \in 1..Len(chunks) - 1 : OverlapTokens(k) > overlap_tokens
                                     /\ overlap_tokens > 0
    /\ \E k \in 1..Len(chunks) - 1 : OverlapCount(k) = 0

\* ------------------------------------------------------------------------
\* Retrieval properties
\* ------------------------------------------------------------------------
HitIds(hits) == {hits[k].chunk_id : k \in 1..Len(hits)}

\* the highest score any hit of hits gives chunk cid
BestScore(hits, cid) ==
    CHOOSE sc \in 1..MaxScore :
        /\ \E k \in 1..Len(hits) : hits[k].chunk_id = cid /\ hits[k].score = sc
        /\ \A k \in 1..Len(hits) : hits[k].chunk_id = cid => hits[k].score <= sc

\* C5: the list returned by retrieve holds each chunk id at most once, every
\* hit with the maximum score seen for its chunk, sorted by score descending,
\* of length min(distinct chunk ids, final_top_k), and no omitted chunk
\* scores strictly higher than a returned one.
C5_MergedTopK ==
    rpc = "done" =>
        LET res == retrieval.results
            ids == HitIds(all_hits)
        IN  /\ \A a, b \in 1..Len(res) : a # b => res[a].chunk_id # res[b].chunk_id
            /\ \A a \in 1..Len(res) :
                  /\ res[a].chunk_id \in ids
                  /\ res[a].score = BestScore(all_hits, res[a].chunk_id)
            /\ \A a \in 1..Len(res) - 1 : res[a].score >= res[a + 1].score
            /\ Len(res) = Min(Cardinality(ids), final_top_k)
            /\ \A c \in ids \ HitIds(res) :
                  \A a \in 1..Len(res) : BestScore(all_hits, c) <= res[a].score
            /\ retrieval.total_retrieved = Len(all_hits)
            /\ retrieval.unique_chunks = Cardinality(ids)

\* a chunk was hit by two queries with different scores, the better one came
\* second, and the truncation dropped a lower-scored chunk
C5_Witness ==
    /\ rpc = "done"
    /\ Len(retrieval.results) >= 1
    /\ Cardinality(HitIds(all_hits)) > final_top_k
    /\ \E a, b \in 1..Len(all_hits) :
          /\ a < b
          /\ all_hits[a].chunk_id = all_hits[b].chunk_id
          /\ all_hits[a].score < all_hits[b].score
          /\ all_hits[b].chunk_id = retrieval.results[1].chunk_id
    /\ \E c \in HitIds(all_hits) \ HitIds(retrieval.results) :
          BestScore(all_hits, c) < retrieval.results[Len(retrieval.results)].score

\* the permutations of 1..n
Perms(n) == {p \in [1..n -> 1..n] : \A a, b \in 1..n : a # b => p[a] # p[b]}

\* the results of retrieve had the per-query hit lists arrived in order p
ResultsInOrder(p) ==
    RetrieveResult(question, all_queries,
                   Flatten([k \in 1..Len(per_query_hits) |-> per_query_hits[p[k]]]),
                   final_top_k).results

\* C6 as stated: the returned ids, scores and order are the same for every
\* order in which the per-variant hit lists are merged, ties included.
C6_Original ==
    rpc = "done" =>
        \A p \in Perms(Len(per_query_hits)) : ResultsInOrder(p) = retrieval.results

\* C6 amended: for every merge order the returned scores are the same,
\* position by position, and a returned chunk whose best score no other
\* chunk shares keeps its position; only chunks with equal best scores may
\* change places or be exchanged at the truncation boundary.
C6_OrderIndependentUpToTies ==
    rpc = "done" =>
        \A p \in Perms(Len(per_query_hits)) :
            LET res == retrieval.results
                alt == ResultsInOrder(p)
            IN  /\ Len(alt) = Len(res)
                /\ \A k \in 1..Len(res) :
                      /\ alt[k].score = res[k].score
                      /\ (\A c \in HitIds(all_hits) \ {res[k].chunk_id} :
                              BestScore(all_hits, c) # res[k].score)
                          => alt[k].chunk_id = res[k].chunk_id

\* two chunks tie at the truncation boundary and another merge order
\* returns a different chunk
C6_Witness ==
    /\ rpc = "done"
    /\ Len(retrieval.results) >= 1
    /\ \E p \in Perms(Len(per_query_hits)) :
          HitIds(ResultsInOrder(p)) # HitIds(retrieval.results)

\* C7 as stated: the query list starts with the question and no two of its
\* entries are equal ignoring case.
C7_Original ==
    rpc # "expand" =>
        /\ all_queries[1] = question
        /\ \A a, b \in 1..Len(all_queries) :
              a # b => Lower(all_queries[a]) # Lower(all_queries[b])

\* C7 amended: the query list starts with the question, no later entry
\* equals the question ignoring case, and every variant that differs from
\* the question ignoring case is in the list; variants are not
\* de-duplicated against each other.
C7_QuestionFirstAndUnique ==
    rpc # "expand" =>
        /\ all_queries[1] = question
        /\ \A a \in 2..Len(all_queries) : Lower(all_queries[a]) # Lower(question)
        /\ \A k \in 1..Len(variants) :
              Lower(variants[k]) # Lower(question) =>
                  \E a \in 2..Len(all_queries) : all_queries[a] = variants[k]
        /\ Len(all_queries) <= 1 + Len(variants)

\* a generated variant that differs from the question only in case was
\* dropped and another generated variant was kept
C7_Witness ==
    /\ rpc # "expand"
    /\ \E k \in 1..Len(variants) :
          variants[k] # question /\ Lower(variants[k]) = Lower(question)
    /\ Len(all_queries) = 2
    /\ Len(variants) = 2

\* The output text is a JSON array: the array alone, or the array inside a
\* markdown fence (an opening fence line and/or a closing fence around it).
IsJsonArrayText(raw) ==
    \E lo, hi \in 1..Len(raw) :
        /\ lo <= hi
        /\ \E k \in lo..hi :
              raw[k] = "ARR" /\ \A m \in (lo..hi) \ {k} : raw[m] = "NL"
        /\ \/ lo = 1
           \/ /\ lo >= 3
              /\ raw[1] = "FENCE"
              /\ raw[lo - 1] = "NL"
              /\ \A m \in 2..(lo - 2) : raw[m] # "NL"
        /\ \/ hi = Len(raw)
           \/ hi = Len(raw) - 1 /\ raw[Len(raw)] = "FENCE"

\* C8: expand_query never raises, and for every failure of the generation
\* service and every output that is not a JSON array with at least one
\* element it returns the heuristic expansion: the question, the question
\* behind the coverage hint, the question behind the exclusions hint,
\* truncated to n.
C8_HeuristicFallback ==
    xpc = "done" =>
        /\ ~xRaised
        /\ (\/ xOutcome.kind # "ok"
            \/ ~IsJsonArrayText(xOutcome.raw)
            \/ xOutcome.payload = <<>>)
           => xVariants =
                 CASE num_variants = 0 -> <<>>
                   [] num_variants = 1 -> <<question>>
                   [] num_variants = 2 -> <<question, CoverageHint \o question>>
                   [] OTHER -> <<question, CoverageHint \o question,
                                 ExclusionHint \o question>>

\* the service timed out and the full heuristic expansion came back
C8_Witness ==
    /\ xpc = "done"
    /\ xOutcome.kind = "Timeout"
    /\ num_variants >= 3
    /\ Len(xVariants) = 3
    /\ xVariants[3] = ExclusionHint \o question

\* ------------------------------------------------------------------------
\* Properties of the coverage agent
\* ------------------------------------------------------------------------
\* retrieve has returned to ask and no query produced a hit
NothingRetrieved ==
    /\ apc \notin {"start", "query"}
    /\ collection = {} \/ hits_returned = 0

\* C9: when the vector store is empty, or answers every query with no hit,
\* retrieve returns a dict with no results, total_retrieved = 0 and
\* unique_chunks = 0 and raises nothing; ask then returns a verdict with
\* covered = "Unknown", confidence = 0.0 and no citations, and the
\* answer-generation call is never made.
C9_EmptyRetrieval ==
    /\ [](NothingRetrieved =>
            /\ apc \in {"filter", "returned"}
            /\ retrieval.results = <<>>
            /\ retrieval.total_retrieved = 0
            /\ retrieval.unique_chunks = 0
            /\ gen_calls = 0
            /\ \A k \in 1..Len(trace) : trace[k] # "generate"
            /\ apc = "returned" =>
                  /\ result.covered = "Unknown"
                  /\ result.confidence = 0
                  /\ result.citations = <<>>)
    /\ [][(NothingRetrieved /\ apc = "filter") =>
              (apc' = "returned" /\ result' = NoChunksVerdict)]_vars

C9_Witness ==
    /\ apc = "returned"
    /\ collection = {}
    /\ Len(all_queries) = 0
    /\ Len(retrieval.query_variants) > 1
    /\ trace = <<"expand", "retrieve", "filter">>
    /\ result = NoChunksVerdict

\* the generation call failed
Unreachable == raw_response.kind \in ServiceFailures

\* the generation call returned a text that parses to no JSON object
Unparseable ==
    /\ raw_response.kind = "ok"
    /\ _extract_json(raw_response.text, raw_response.payload).none

IsFallbackVerdict(v) ==
    /\ v.covered = "Unknown"
    /\ v.confidence = 0
    /\ v.citations = <<>>
    /\ v.caveats = <<>>
    /\ "fallback" \in v.meta.keys
    /\ v.meta.fallback = TRUE

\* C10: when the generation call fails, or its text parses to no JSON
\* object, ask returns the fallback verdict (covered = "Unknown",
\* confidence = 0.0, no citations, no caveats, _meta.fallback = True), and
\* neither _validate_response nor _backfill_citations has run.
C10_FallbackVerdict ==
    /\ Unreachable =>
          /\ apc = "returned"
          /\ IsFallbackVerdict(result)
          /\ \A k \in 1..Len(trace) : trace[k] \notin {"parse", "validate", "backfill"}
    /\ (Unparseable /\ apc # "parse") =>
          /\ apc = "returned"
          /\ IsFallbackVerdict(result)
          /\ trace[Len(trace)] = "parse"
          /\ \A k \in 1..Len(trace) : trace[k] \notin {"validate", "backfill"}

C10_Witness ==
    /\ apc = "returned"
    /\ raw_response.kind = "ok"
    /\ raw_response.text = <<"FENCE", "ARR", "FENCE">>
    /\ IsFallbackVerdict(result)
    /\ "raw_response" \in result.meta.keys

\* C11: one invocation of ask issues the answer-generation call at most
\* once; when the call fails (timeout, no connection, any other failure)
\* ask makes no further call, raises nothing, and its very next state is the
\* returned fallback verdict.
C11_NoRetry ==
    /\ [](gen_calls <= 1)
    /\ [](gen_calls = 1 => \E k \in 1..Len(trace) :
                              /\ trace[k] = "generate"
                              /\ \A j \in 1..Len(trace) : trace[j] = "generate" => j = k)
    /\ [](Unreachable =>
            /\ gen_calls = 1
            /\ apc = "returned"
            /\ trace[Len(trace)] = "generate"
            /\ result = _fallback_response(ErrorText(raw_response.kind)))
    /\ [][gen_calls' # gen_calls => (apc = "call" /\ gen_calls = 0)]_vars

C11_Witness ==
    /\ apc = "returned"
    /\ raw_response.kind = "HTTPError"
    /\ gen_calls = 1
    /\ result.meta.error = "HTTPError"
    /\ ask_chunks # <<>>

\* the covered value of the parsed object: "covered", else "answer"
CoveredInput ==
    LET data == _flatten_value(parsed)
    IN  Get(data, "covered", Get(data, "answer", JNull))

\* the member of the enumeration that x equals when case is ignored
MatchIgnoringCase(x) ==
    {c \in CoveredValues : LowerStr(c) = LowerStr(x)}

\* C12: whatever path ask returns on, covered is one of Yes, No, Partial,
\* Unknown; after _validate_response a covered/answer string that equals one
\* of them ignoring case has become that member, and every other value (no
\* string, another string, missing) has become Unknown.
C12_CoveredEnumeration ==
    /\ apc = "returned" => result.covered \in CoveredValues
    /\ (apc = "backfill" \/ (apc = "returned" /\ Len(trace) = 7)) =>
          IF CoveredInput.t = "str" /\ MatchIgnoringCase(CoveredInput.s) # {}
          THEN result.covered \in MatchIgnoringCase(CoveredInput.s)
          ELSE result.covered = "Unknown"

C12_Witness ==
    /\ apc = "returned"
    /\ Len(trace) = 7
    /\ CoveredInput = JStr("PARTIAL")
    /\ result.covered = "Partial"

\* ------------------------------------------------------------------------
\* Properties of _validate_response
\* ------------------------------------------------------------------------
\* the confidence field of the object, after flattening
ConfidenceInput == Get(_flatten_value(vdata), "confidence", Absent)

\* C13: for every confidence value of a parsed response _validate_response
\* stores a confidence in [0, 1]: a number above 1 gives 1.0, a number below
\* 0 gives 0.0, a number in range is kept, and a value that is no number and
\* parses to none (a word, a list, null) gives 0.0.
C13_ConfidenceClamped ==
    vpc # "start" =>
        /\ ~vresult.raised
        /\ vresult.verdict.confidence \in 0..10
        /\ (ConfidenceInput.t = "bigint") => vresult.verdict.confidence = 10
        /\ (ConfidenceInput.t = "num" /\ ConfidenceInput.n > 10) =>
              vresult.verdict.confidence = 10
        /\ (ConfidenceInput.t = "num" /\ ConfidenceInput.n < 0) =>
              vresult.verdict.confidence = 0
        /\ (ConfidenceInput.t = "num" /\ ConfidenceInput.n \in 0..10) =>
              vresult.verdict.confidence = ConfidenceInput.n
        /\ (\/ ConfidenceInput.t \in {"list", "dict", "null"}
            \/ ConfidenceInput.t = "str" /\ ~ParseFloat(StripStr(ConfidenceInput.s)).ok) =>
              vresult.verdict.confidence = 0

\* the citations _validate_response made of the parsed object
ValidatedCitations == _validate_response(parsed).verdict.citations

\* C14: every citation of a verdict returned by ask has a quote that is
\* not empty and not only whitespace; a citation whose quote is still empty
\* after the backfill is not in the returned list.
C14_QuotesNonEmpty ==
    apc = "returned" =>
        /\ \A k \in 1..Len(result.citations) :
              StripStr(result.citations[k].quote) # ""
        /\ Len(trace) = 7 =>
              \/ result.citations = <<>>
              \/ ValidatedCitations = <<>>
              \/ Len(result.citations) <= Len(ValidatedCitations)

C14_Witness ==
    /\ apc = "returned"
    /\ Len(trace) = 7
    /\ Len(ValidatedCitations) = 2
    /\ StripStr(ValidatedCitations[1].quote) = ""
    /\ Len(result.citations) = 1
    /\ result.citations[1].quote = "As quoted."

\* the quote the three-step order gives a citation: the first chunk matching
\* file and page, else the first chunk matching the file, else the
\* highest-ranked chunk
ThreeStepQuote(cit) ==
    LET fname == LowerStr(cit.file)
        exact == SelectSeq(ask_chunks, LAMBDA c :
                    /\ Contains(fname, LowerStr(ChunkMeta(c.chunk_id).filename))
                    /\ ChunkMeta(c.chunk_id).page_number <= cit.page
                    /\ cit.page <= ChunkMeta(c.chunk_id).page_end)
        loose == SelectSeq(ask_chunks, LAMBDA c :
                    Contains(fname, LowerStr(ChunkMeta(c.chunk_id).filename)))
        source == IF exact # <<>> THEN exact[1]
                  ELSE IF loose # <<>> THEN loose[1]
                  ELSE ask_chunks[1]
    IN  _best_sentence(ChunkMeta(source.chunk_id).sentences, question)

\* C15: a citation whose quote is empty gets its quote from the first
\* retrieved chunk matching its file and page, else from the first chunk
\* matching its file, else from the highest-ranked retrieved chunk; so with
\* at least one retrieved chunk every such citation leaves the backfill
\* with a quote drawn from a retrieved chunk.
C15_BackfillOrder ==
    (apc = "returned" /\ Len(trace) = 7 /\ ValidatedCitations # <<>>) =>
        /\ Len(result.citations) = Len(ValidatedCitations)
        /\ \A k \in 1..Len(ValidatedCitations) :
              StripStr(ValidatedCitations[k].quote) = "" =>
                  result.citations[k].quote = ThreeStepQuote(ValidatedCitations[k])

\* the caveats field of the object, after flattening
CaveatsInput == Get(_flatten_value(vdata), "caveats", Absent)

\* C16: after _validate_response caveats is a list whose every element is a
\* non-empty string; a bare string has become a one-element list; empty,
\* whitespace-only and null entries are gone.
C16_CaveatsNonEmpty ==
    (vpc # "start" /\ ~vresult.raised) =>
        /\ \A k \in 1..Len(vresult.verdict.caveats) :
              StripStr(vresult.verdict.caveats[k]) # ""
        /\ (CaveatsInput.t = "str" /\ StripStr(CaveatsInput.s) # "") =>
              vresult.verdict.caveats = <<StripStr(CaveatsInput.s)>>

\* C17: _validate_response is idempotent: applied to the dict it returned
\* it returns the same covered, confidence, explanation, citations and
\* caveats, also when the first application took the explanation from the
\* unrecognised fields.
C17_Idempotent ==
    vpc = "twice" =>
        /\ ~vagain.raised
        /\ vagain.verdict.covered = vresult.verdict.covered
        /\ vagain.verdict.confidence = vresult.verdict.confidence
        /\ vagain.verdict.explanation = vresult.verdict.explanation
        /\ vagain.verdict.citations = vresult.verdict.citations
        /\ vagain.verdict.caveats = vresult.verdict.caveats

\* a mapping of at most three keys that carries a "value" key
IsWrapper(v) == v.t = "dict" /\ HasKey(v, "value") /\ Len(v.keys) <= 3

\* v is, or contains at some depth, a wrapper
RECURSIVE HasWrapper(_)
HasWrapper(v) ==
    \/ IsWrapper(v)
    \/ \E j \in 1..Len(v.items) : HasWrapper(v.items[j])

\* C18: _flatten_value leaves no type/value wrapper at any depth, in any
\* field or list element; a response whose covered and confidence are
\* wrapped normalises to the wrapped scalars.
C18_FlattenUnwraps ==
    vpc # "start" =>
        /\ ~HasWrapper(_flatten_value(vdata))
        /\ \A d \in 1..MaxWrapDepth :
              /\ Get(vdata, "covered", Absent) = Wrap(d, JStr("Yes")) =>
                    (vresult.raised \/ vresult.verdict.covered = "Yes")
              /\ Get(vdata, "confidence", Absent) = Wrap(d, JNum(8)) =>
                    (~vresult.raised /\ vresult.verdict.confidence = 8)
        /\ (Get(vdata, "citations", Absent) # Absent /\ ~vresult.raised) =>
              (Len(vresult.verdict.citations) = 1 /\ vresult.verdict.citations[1].page = 3)

C18_Witness ==
    /\ vpc = "once"
    /\ HasWrapper(vdata)
    /\ Get(vdata, "covered", Absent) = Wrap(2, JStr("Yes"))
    /\ Get(vdata, "confidence", Absent) = Wrap(1, JNum(8))
    /\ Get(vdata, "caveats", Absent).t = "list"
    /\ HasWrapper(Get(vdata, "caveats", Absent))
    /\ vresult.verdict.covered = "Yes"
    /\ vresult.verdict.confidence = 8

\* the explanation field of the object, after flattening
ExplanationInput == Get(_flatten_value(vdata), "explanation", Absent)

\* text is sub, or sub joined with the salvaged fields on either side
KeepsText(text, sub, salvaged) ==
    \/ text = sub
    \/ text = sub \o " " \o salvaged
    \/ text = salvaged \o " " \o sub

\* C20: when the parsed object carries a non-empty string explanation, the
\* explanation returned by _validate_response still contains that text,
\* also when unrecognised top-level string fields are salvaged: they are
\* joined to the explanation and do not replace it.
C20_ExplanationKept ==
    (/\ vpc # "start"
     /\ ~vresult.raised
     /\ ExplanationInput.t = "str"
     /\ StripStr(ExplanationInput.s) # "") =>
        KeepsText(vresult.verdict.explanation, StripStr(ExplanationInput.s),
                  JoinSpace(Extras(_flatten_value(vdata))))

\* ------------------------------------------------------------------------
\* Properties of the section lookup
\* ------------------------------------------------------------------------
\* the detected headers whose estimated offset does not exceed the chunk start
HeadersBefore ==
    LET sections == detect_sections(spages, 1)
        page_map == _build_page_map(spages, 1, 0)
    IN  SelectSeq(sections,
                  LAMBDA sec : SectionOffset(sec, spages, page_map) <= soffset)

C24_AlwaysCandidate ==
    /\ apc # "raised"
    /\ parsed # JNull => ~_validate_response(parsed).raised

\* the quote _best_sentence selects for the question about the knee from
\* the text of each chunk of the store
SelectedQuote(cid) ==
    CASE cid = 0 -> ""
      [] cid = 2 -> "Dental is excluded."
      [] cid = 3 -> "Knee braces are covered."
      [] OTHER -> "Knee replacement is included under surgical benefits."

\* the citation synthesised from the chunk of rank j
SynthesisedFrom(j) ==
    Citation(ChunkMeta(ask_chunks[j].chunk_id).filename,
             ChunkMeta(ask_chunks[j].chunk_id).page_number,
             ChunkMeta(ask_chunks[j].chunk_id).section_title,
             SelectedQuote(ask_chunks[j].chunk_id))

\* ask returned a validated verdict whose citation list was empty before
\* the backfill
NoCitationsBeforeBackfill ==
    /\ apc = "returned"
    /\ Len(trace) = 7
    /\ ValidatedCitations = <<>>

ParsedWithText ==
    /\ apc = "returned"
    /\ Len(trace) = 7
    /\ \E j \in 1..Len(ask_chunks) :
          JoinSpace(ChunkMeta(ask_chunks[j].chunk_id).sentences) # ""

\* C28: whenever the generation output parses to an object and a chunk with
\* non-empty text was retrieved, the verdict returned by ask has at least
\* one citation, whatever citations the object carries.
C28_AtLeastOneCitation ==
    ParsedWithText => Len(result.citations) >= 1

\* ask returned a verdict whose citation list was not empty before the
\* backfill
BackfilledExisting ==
    /\ apc = "returned"
    /\ Len(trace) = 7
    /\ ValidatedCitations # <<>>

\* C29: the citations returned by _backfill_citations are the citations it
\* was given, in their order, without some of those whose quote was blank:
\* file, page and section are never changed, and a citation that had a
\* non-blank quote is returned as it was.
C29_BackfillFrame ==
    BackfilledExisting =>
        \E f \in [1..Len(result.citations) -> 1..Len(ValidatedCitations)] :
            /\ \A a, b \in 1..Len(result.citations) : a < b => f[a] < f[b]
            /\ \A j \in 1..Len(result.citations) :
                  /\ result.citations[j].file = ValidatedCitations[f[j]].file
                  /\ result.citations[j].page = ValidatedCitations[f[j]].page
                  /\ result.citations[j].section = ValidatedCitations[f[j]].section
                  /\ StripStr(ValidatedCitations[f[j]].quote) # ""
                        => result.citations[j] = ValidatedCitations[f[j]]
            /\ \A k \in 1..Len(ValidatedCitations) :
                  StripStr(ValidatedCitations[k].quote) # ""
                      => \E j \in 1..Len(result.citations) : f[j] = k

C29_Witness ==
    /\ BackfilledExisting
    /\ Len(ValidatedCitations) = 2
    /\ Len(result.citations) = 2
    /\ StripStr(ValidatedCitations[1].quote) = ""
    /\ StripStr(ValidatedCitations[2].quote) # ""
    /\ result.citations[1].quote = "Dental is excluded."

\* C27: the index of a chunk's last sentence strictly increases from chunk
\* to chunk, so every chunk after the first holds a sentence that lies
\* after the last sentence of the preceding chunk.
C27_LastSentenceAdvances ==
    \A k \in 1..Len(chunks) - 1 : chunks[k + 1].end > chunks[k].end

\* ------------------------------------------------------------------------
\* Offset properties
\* ------------------------------------------------------------------------

\* C25: for every chunk the first sentence begins at position char_start of
\* the concatenated document, whatever the whitespace between sentences,
\* and page_number and page_end are the pages on which the chunk's first
\* and last sentence lie.
C25_OffsetsDelimit ==
    \A k \in 1..Len(spans) :
        /\ spans[k].char_start = TrueStart(sent_chars, spans[k].start)
        /\ spans[k].page_number = PageOf(sent_chars, spans[k].start)
        /\ spans[k].page_end = PageOf(sent_chars, spans[k].end - 1)

\* ------------------------------------------------------------------------
\* Vector store properties
\* ------------------------------------------------------------------------

\* C30: after ingest_chunks(chunks, force=False) returns, every chunk_id of
\* chunks is in the collection, whatever the collection held before.
C30_IngestedPresent ==
    [][(ingest_calls' = ingest_calls + 1 /\ ~ingest_force')
          => \A j \in 1..Len(ingest_list') : ingest_list'[j] \in stored']_vars

\* ------------------------------------------------------------------------
\* Downloader properties
\* ------------------------------------------------------------------------

\* C23: the filenames returned by the calls that share one seen map are
\* pairwise distinct ignoring case, and the k-th repetition of a name gets
\* the suffix _k.
C23_PairwiseDistinct ==
    /\ \A a, b \in 1..Len(returned) :
          a # b => LowerName(returned[a]) # LowerName(returned[b])
    /\ \A b \in 1..Len(returned) :
          LET earlier == Cardinality({a \in 1..b - 1 :
                             LowerName(inputs[a]) = LowerName(inputs[b])})
          IN  returned[b] = IF earlier = 0 THEN inputs[b]
                            ELSE WithSuffix(inputs[b], earlier)

\* ------------------------------------------------------------------------
\* Answer chain properties
\* ------------------------------------------------------------------------

\* the text returned by the generation call was parsed and json.loads
\* failed on it
ParseFailed ==
    /\ chpc \in {"backfill", "returned"}
    /\ chain_raw.kind = "ok"
    /\ JsonLoads(Cleaned(chain_raw.text), chain_raw.payload).failed

\* C21: for every raw text from which no JSON can be parsed,
\* _parse_response returns answer = Unknown and confidence = 0.0.
C21_ParseFailureUnknown ==
    ParseFailed => (chain_data.answer = "Unknown" /\ chain_data.confidence = 0)

\* C22: every result returned by AnswerChain.answer has a confidence within
\* [0, 1] (0..10 in tenths), whatever confidence the model put in its JSON.
C22_ConfidenceInRange ==
    chpc = "returned" =>
        (0 <= chain_result.confidence /\ chain_result.confidence <= 10)

====
